---- MODULE Spec2Model ----
(***************************************************************************)
(* Model of the rural-road import of roadMapTool:                          *)
(*   - CountryRoadService.parse_stake_range   (station parser)             *)
(*   - BaseDataService.parse_drive_direction  (direction splitting)        *)
(*   - CountryRoadService.process_excel_row / create_road_network /        *)
(*     process_country_road_import            (hierarchy assembler)        *)
(*   - CountryRoadService.get_segment_coordinates /                        *)
(*     coordinates_to_geojson                 (level-3 geometry)           *)
(*   - countryRouter.import_country_roads     (import endpoint)            *)
(*   - BaiduMercatorRoadTrackGenerator.bd09_to_bd09mc / bd09mc_to_bd09     *)
(*                                            (coordinate conversions)     *)
(*   - BaiduMercatorRoadTrackGenerator.create_road_segments_along_track    *)
(*                                            (arc-length segmenter)       *)
(* Stake texts are sequences of one-character strings, so that parsing and *)
(* formatting are computed character by character as the code does.        *)
(***************************************************************************)
EXTENDS Integers, Sequences, FiniteSets, TLC

----------------------------------------------------------------------------
(* Bounds of the model *)

\* largest kilometre number used to build input stake texts
MaxKm == 1
\* input intervals are the multiples k * 100, k in -1 .. MaxIntervalSteps
MaxIntervalSteps == 3

----------------------------------------------------------------------------
(* Characters and integers *)

DigitChars == <<"0", "1", "2", "3", "4", "5", "6", "7", "8", "9">>

IsDigit(c) == \E i \in 1..10 : DigitChars[i] = c

DigitVal(c) == (CHOOSE i \in 1..10 : DigitChars[i] = c) - 1

Min(a, b) == IF a <= b THEN a ELSE b

Max(a, b) == IF a >= b THEN a ELSE b

\* int(text) for a non-empty run of decimal digits
RECURSIVE DigitsToInt(_)
DigitsToInt(ds) ==
    IF ds = <<>> THEN 0
    ELSE 10 * DigitsToInt(SubSeq(ds, 1, Len(ds) - 1)) + DigitVal(ds[Len(ds)])

\* str(n) for n >= 0
RECURSIVE IntToDigits(_)
IntToDigits(n) ==
    IF n < 10 THEN <<DigitChars[n + 1]>>
    ELSE IntToDigits(n \div 10) \o <<DigitChars[(n % 10) + 1]>>

\* f"{n:03d}" for n >= 0: zero-padded to at least three digits
Pad3(n) ==
    LET ds == IntToDigits(n)
    IN  IF Len(ds) >= 3 THEN ds
        ELSE IF Len(ds) = 2 THEN <<"0">> \o ds
        ELSE <<"0", "0">> \o ds

\* str.strip(): drop leading and trailing blanks
RECURSIVE LStrip(_)
LStrip(s) == IF s # <<>> /\ s[1] = " " THEN LStrip(Tail(s)) ELSE s

RECURSIVE RStrip(_)
RStrip(s) ==
    IF s # <<>> /\ s[Len(s)] = " " THEN RStrip(SubSeq(s, 1, Len(s) - 1)) ELSE s

Strip(s) == RStrip(LStrip(s))

----------------------------------------------------------------------------
(* parse_stake_range: the pattern K(\d+)\+(\d+) applied with re.match *)

\* length of the longest run of digits of s that starts at position i
RECURSIVE DigitRun(_, _)
DigitRun(s, i) ==
    IF i <= Len(s) /\ IsDigit(s[i]) THEN 1 + DigitRun(s, i + 1) ELSE 0

\* re.match(r"K(\d+)\+(\d+)", s): anchored at the start of s only; rest is
\* the number of characters of s left over after the match
StakeMatch(s) ==
    LET nk    == DigitRun(s, 2)
        plus  == 2 + nk
        nm    == DigitRun(s, plus + 1)
        found == /\ Len(s) >= 1 /\ s[1] = "K"
                 /\ nk >= 1
                 /\ plus <= Len(s) /\ s[plus] = "+"
                 /\ nm >= 1
    IN  IF found
        THEN [ok |-> TRUE,
              km |-> DigitsToInt(SubSeq(s, 2, 1 + nk)),
              m  |-> DigitsToInt(SubSeq(s, plus + 1, plus + nm)),
              rest |-> Len(s) - (plus + nm)]
        ELSE [ok |-> FALSE, km |-> 0, m |-> 0, rest |-> 0]

\* start_km * 1000 + start_m
TotalMetres(match) == match.km * 1000 + match.m

\* f"K{m // 1000}+{m % 1000:03d}"
FormatStake(m) == <<"K">> \o IntToDigits(m \div 1000) \o <<"+">> \o Pad3(m % 1000)

\* the two interval checks of parse_stake_range
IntervalInvalidOffByOne(interval, start_total_m, end_total_m) ==
    \/ interval <= 0
    \/ interval >= (end_total_m - start_total_m)

IntervalInvalid(interval, start_total_m, end_total_m) ==
    \/ interval <= 0
    \/ interval > (end_total_m - start_total_m)

\* segment_end = min(current_m + interval, end_total_m)
SegmentEndNoClamp(current_m, interval, end_total_m) == current_m + interval

SegmentEndMax(current_m, interval, end_total_m) ==
    Max(current_m + interval, end_total_m)

SegmentEnd(current_m, interval, end_total_m) ==
    Min(current_m + interval, end_total_m)

\* the while loop of parse_stake_range: pairs (start stake, end stake)
RECURSIVE StakeSegments(_, _, _)
StakeSegments(current_m, interval, end_total_m) ==
    IF current_m < end_total_m
    THEN LET segment_end == SegmentEnd(current_m, interval, end_total_m)
         IN  <<  <<FormatStake(current_m), FormatStake(segment_end)>>  >>
             \o StakeSegments(segment_end, interval, end_total_m)
    ELSE <<>>

\* parse_stake_range(start_stake, end_stake, interval); the ValueError raised
\* is kept as a status: "format_error" for the two pattern checks,
\* "range_error" for the end <= start and the interval checks.
\* total_m is total_length_km in metres.
parse_stake_range(start_stake, end_stake, interval) ==
    LET start_match == StakeMatch(Strip(start_stake))
        end_match   == StakeMatch(Strip(end_stake))
        start_total_m == TotalMetres(start_match)
        end_total_m   == TotalMetres(end_match)
        failed(kind) == [status |-> kind, segments |-> <<>>, total_m |-> 0]
    IN  IF ~start_match.ok THEN failed("format_error")
        ELSE IF ~end_match.ok THEN failed("format_error")
        ELSE IF end_total_m <= start_total_m THEN failed("range_error")
        ELSE IF IntervalInvalid(interval, start_total_m, end_total_m)
             THEN failed("range_error")
        ELSE [status   |-> "ok",
              segments |-> StakeSegments(start_total_m, interval, end_total_m),
              total_m  |-> end_total_m - start_total_m]

----------------------------------------------------------------------------
(* Inputs of the station parser *)

\* metres parts of the input stakes
MetreTexts ==
    { <<"0", "0", "0">>, <<"0", "8", "0">>, <<"2", "0", "0">>,
      <<"2", "8", "0">>, <<"5">>, <<"1", "2", "0", "0">> }

\* well-formed stake texts K<km>+<metres>
CanonicalStakes ==
    { <<"K">> \o IntToDigits(km) \o <<"+">> \o mt :
        km \in 0..MaxKm, mt \in MetreTexts }

\* malformed or decorated stake texts
OddStakes ==
    { <<"K", "0", "+", "0", "0", "0", "a", "b", "c">>,  \* trailing characters
      <<"K", "1", "+", "2", "8", "0", "m">>,            \* trailing characters
      <<"k", "1", "+", "2", "8", "0">>,                 \* lower-case k
      <<"K", "1", "2", "8", "0">>,                      \* no '+'
      <<"K", "+", "2", "8", "0">>,                      \* no kilometre digits
      <<"K", "1", "+">>,                                \* no metre digits
      <<"X", "K", "1", "+", "2", "8", "0">>,            \* leading characters
      <<" ", "K", "1", "+", "2", "8", "0", " ">>,       \* blanks around
      <<>> }

StakeTexts == CanonicalStakes \cup OddStakes

Intervals == { k * 100 : k \in -1..MaxIntervalSteps } \cup { 80, 1280 }

----------------------------------------------------------------------------
(* parse_drive_direction and the direction dictionary                      *)
(* A direction text is a sequence of symbols: a direction word, "/" or " ". *)
(* A label is the sequence of symbols left of a part after strip().        *)

\* direction_text.split("/")
RECURSIVE SplitSlash(_, _)
SplitSlash(text, part) ==
    IF text = <<>> THEN <<part>>
    ELSE IF text[1] = "/" THEN <<part>> \o SplitSlash(Tail(text), <<>>)
    ELSE SplitSlash(Tail(text), Append(part, text[1]))

\* parse_drive_direction: split on "/" when one is present, strip every part
parse_drive_direction(direction_text) ==
    IF \E i \in 1..Len(direction_text) : direction_text[i] = "/"
    THEN LET parts == SplitSlash(direction_text, <<>>)
         IN  [i \in 1..Len(parts) |-> Strip(parts[i])]
    ELSE <<Strip(direction_text)>>

\* labels of dict_type "drive_direction" present in t_system_dict_data:
\* east = 东侧, west = 西侧, up = 上行, ring = a label the dictionary has
\* and the direction mapping has not
DriveDirectionDict == { <<"east">>, <<"west">>, <<"up">>, <<"ring">> }

\* query_dict_value("drive_direction", label) finds a row
DictHasLabel(label) == label \in DriveDirectionDict

\* keys of drive_direction_values after the insertions of process_excel_row:
\* a Python dict keeps one key per label, in order of first insertion
DictKeysKeepDuplicates(labels) == labels

RECURSIVE DictKeys(_)
DictKeys(labels) ==
    IF labels = <<>> THEN <<>>
    ELSE LET before == DictKeys(SubSeq(labels, 1, Len(labels) - 1))
             label  == labels[Len(labels)]
         IN  IF \E i \in 1..Len(before) : before[i] = label
             THEN before
             ELSE Append(before, label)

----------------------------------------------------------------------------
(* Direction mapping and segment geometry *)

\* the label -> track table of load_direction_config (east = 东侧,
\* west = 西侧, south = 南侧, north = 北侧, inner = 内圈, outer = 外圈,
\* up = 上行, down = 下行)
direction_mapping ==
    [label \in { <<"east">>, <<"west">>, <<"south">>, <<"north">>,
                 <<"inner">>, <<"outer">>, <<"up">>, <<"down">> } |->
        IF label \in { <<"west">>, <<"north">>, <<"outer">>, <<"up">> }
        THEN "left_track" ELSE "right_track"]

\* self.direction_mapping.get(direction_label): "" stands for None
LookupTrackTypeDefaultRight(direction_label) ==
    IF direction_label \in DOMAIN direction_mapping
    THEN direction_mapping[direction_label] ELSE "right_track"

LookupTrackType(direction_label) ==
    IF direction_label \in DOMAIN direction_mapping
    THEN direction_mapping[direction_label] ELSE ""

\* the segment list get_segment_coordinates reads for a track type
SegmentsOfTrackSwapped(track_result, track_type) ==
    IF track_type = "left_track"
    THEN track_result.right_segments ELSE track_result.left_segments

SegmentsOfTrack(track_result, track_type) ==
    IF track_type = "left_track"
    THEN track_result.left_segments ELSE track_result.right_segments

\* segment_idx - 1: the 0-based index passed to create_road_level3
SegmentIndex(segment_idx) == segment_idx - 1

\* get_segment_coordinates(track_result, direction_label, segment_index):
\* the segment, or the ValueError raised
get_segment_coordinates(track_result, direction_label, segment_index) ==
    LET track_type == LookupTrackType(direction_label)
        segments   == SegmentsOfTrack(track_result, track_type)
    IN  IF track_type = ""
        THEN [status |-> "unknown_direction", segment |-> <<>>]
        ELSE IF segment_index >= Len(segments)
        THEN [status |-> "index_out_of_range", segment |-> <<>>]
        ELSE [status |-> "ok", segment |-> <<segments[segment_index + 1]>>]

\* coordinates_to_geojson: a list holding one two-point LineString feature;
\* the length in kilometres is kept as the fraction length_meters / 1000
coordinates_to_geojson(start_coord, end_coord, length_meters) ==
    << [type |-> "LineString",
        coordinates |-> <<start_coord, end_coord>>,
        length |-> <<length_meters, 1000>>] >>

\* the try block of create_road_level3 that adds payload["geojson"]:
\* the geojson (empty when the field is left out) and the message printed
\* when the lookup failed ("" when it did not)
Level3GeometryFallsBack(track_result, direction_label, segment_index) ==
    LET found == get_segment_coordinates(track_result, direction_label, segment_index)
        first == track_result.right_segments[1]
    IN  IF found.status = "ok"
        THEN [geojson |-> coordinates_to_geojson(
                              found.segment[1].start_coordinate,
                              found.segment[1].end_coordinate,
                              found.segment[1].length),
              warning |-> ""]
        ELSE [geojson |-> coordinates_to_geojson(
                              first.start_coordinate, first.end_coordinate,
                              first.length),
              warning |-> found.status]

Level3Geometry(track_result, direction_label, segment_index) ==
    LET found == get_segment_coordinates(track_result, direction_label, segment_index)
    IN  IF found.status = "ok"
        THEN [geojson |-> coordinates_to_geojson(
                              found.segment[1].start_coordinate,
                              found.segment[1].end_coordinate,
                              found.segment[1].length),
              warning |-> ""]
        ELSE [geojson |-> <<>>, warning |-> found.status]

\* a segment list of generate_parallel_tracks for one side: n segments
\* whose coordinates name the side and the position along the track
TrackSegments(side, n) ==
    [i \in 1..n |->
        [start_coordinate |-> <<side, i - 1>>,
         end_coordinate   |-> <<side, i>>,
         length           |-> 100]]

----------------------------------------------------------------------------
(* process_excel_row *)

\* except Exception as e: raise Exception("轨迹生成失败: ...") around the call
\* of generate_parallel_tracks: what process_excel_row yields when the call
\* has raised; data is the dictionary built so far
TrackFailureDropsGeometry(failed, data) == data

TrackFailure(failed, data) == failed

\* process_excel_row(row): the processed_data dictionary, or the exception
\* (ok is FALSE, error says what raised). row.lookups_ok is the outcome of
\* the collaborators other than the direction dictionary and the track
\* generator (project, road type, structure, lane count, dates);
\* row.track_ok says whether generate_parallel_tracks has returned.
process_excel_row(row) ==
    LET parsed == parse_stake_range(row.start_stake, row.end_stake, row.interval)
        direction_labels == parse_drive_direction(row.direction_text)
        failed(kind) ==
            [ok |-> FALSE, name |-> row.name, stake_segments |-> <<>>,
             drive_direction_values |-> <<>>, interval |-> row.interval,
             track_result |-> row.track, error |-> kind]
        data == [ok |-> TRUE,
                 name |-> row.name,
                 stake_segments |-> parsed.segments,
                 drive_direction_values |-> DictKeys(direction_labels),
                 interval |-> row.interval,
                 track_result |-> row.track,
                 error |-> "none"]
    IN  IF ~row.lookups_ok THEN failed("other")
        ELSE IF parsed.status # "ok" THEN failed("other")
        ELSE IF \E i \in 1..Len(direction_labels) : ~DictHasLabel(direction_labels[i])
             THEN failed("other")
        ELSE IF ~row.track_ok THEN TrackFailure(failed("track"), data)
        ELSE data

----------------------------------------------------------------------------
(* create_road_network: the pieces of its control flow *)

NoneId == <<>>

\* self.created_level1_roads[road_name] = level1_id
RecordLevel1Skipped(table, road_name, level1_id) == table

RecordLevel1(table, road_name, level1_id) ==
    [n \in (DOMAIN table) \cup {road_name} |->
        IF n = road_name THEN level1_id ELSE table[n]]

\* the table after create_road_level1 has raised: the assignment
\* self.created_level1_roads[road_name] = level1_id is not reached
TableAfterLevel1FailureRecordsNone(table, road_name) ==
    [n \in (DOMAIN table) \cup {road_name} |->
        IF n = road_name THEN <<>> ELSE table[n]]

TableAfterLevel1Failure(table, road_name) == table

\* parentId of a level-3 node: create_road_level3(processed_data, level2_id, ...)
Level3ParentIsLevel1(level1_id, level2_id) == level1_id

Level3Parent(level1_id, level2_id) == level2_id

\* stake bounds of the level-3 node of direction number idx (0-based)
Level3StakesNeverSwapped(idx, segment_start, segment_end) ==
    <<segment_start, segment_end>>

Level3Stakes(idx, segment_start, segment_end) ==
    IF idx = 0 THEN <<segment_start, segment_end>>
    ELSE <<segment_end, segment_start>>

\* the outer except clause: a level-1 failure ends create_road_network;
\* first is where the segment loop would have started
AfterLevel1FailureContinue(first) == first

AfterLevel1Failure(first) == "row_end"

\* where the segment loop goes after segment number seg_idx (1-based)
NextSegment(seg_idx, total_segments) ==
    IF seg_idx < total_segments
    THEN [pc |-> "level2", seg_idx |-> seg_idx + 1]
    ELSE [pc |-> "row_end", seg_idx |-> seg_idx]

\* the except clause of the level-2 try: record the error, go on
AfterLevel2FailureBreak(seg_idx, total_segments) ==
    [pc |-> "row_end", seg_idx |-> seg_idx]

AfterLevel2Failure(seg_idx, total_segments) ==
    NextSegment(seg_idx, total_segments)

\* where the direction loop goes after direction number dir_idx (1-based)
NextDirectionSkipsLevel2(dir_idx, direction_count, seg_idx, total_segments) ==
    IF dir_idx < direction_count
    THEN [pc |-> "level3", seg_idx |-> seg_idx, dir_idx |-> dir_idx + 1]
    ELSE [pc |-> IF seg_idx < total_segments THEN "level3" ELSE "row_end",
          seg_idx |-> NextSegment(seg_idx, total_segments).seg_idx,
          dir_idx |-> 1]

NextDirection(dir_idx, direction_count, seg_idx, total_segments) ==
    IF dir_idx < direction_count
    THEN [pc |-> "level3", seg_idx |-> seg_idx, dir_idx |-> dir_idx + 1]
    ELSE [pc |-> NextSegment(seg_idx, total_segments).pc,
          seg_idx |-> NextSegment(seg_idx, total_segments).seg_idx,
          dir_idx |-> 1]

\* the except clause of the level-3 try: record the error, go on
AfterLevel3Failure(dir_idx, direction_count, seg_idx, total_segments) ==
    NextDirection(dir_idx, direction_count, seg_idx, total_segments)

----------------------------------------------------------------------------
(* Inputs of an import run *)

\* largest number of data rows of a spreadsheet
MaxRows == 2
\* largest number of import runs of one service instance
MaxRuns == 2

RoadNames == { "G101", "X202" }

K0_000 == <<"K", "0", "+", "0", "0", "0">>

K0_100 == <<"K", "0", "+", "1", "0", "0">>

K0_180 == <<"K", "0", "+", "1", "8", "0">>

K1_200 == <<"K", "1", "+", "2", "0", "0">>

K1_280 == <<"K", "1", "+", "2", "8", "0">>

\* (start stake, end stake, interval) of a row
RowStakes ==
    { <<K0_000, K0_100, 100>>,                           \* one segment
      <<K0_000, K0_180, 100>>,                           \* two, the last short
      <<K0_180, K0_000, 100>>,                           \* end before start
      <<<<"k", "0", "+", "0", "0", "0">>, K0_100, 100>> } \* malformed start

\* direction texts of a row
DirectionTexts ==
    { <<"east">>,
      <<"east", "/", "west">>,
      <<" ", "west", " ", "/", " ", "east">>,
      <<"east", "/", "east">>,
      <<"up", "/", "ring", "/", "west">>,
      <<"east", "/">>,
      <<"east", "/", "middle">> }

\* no track result: generate_parallel_tracks has raised
NoTrackResult == [left_segments |-> <<>>, right_segments |-> <<>>]

\* track results of a row: (left, right) numbers of track segments
TrackResults ==
    { [left_segments  |-> TrackSegments("left", c[1]),
       right_segments |-> TrackSegments("right", c[2])] :
        c \in { <<2, 2>>, <<1, 2>> } }

\* the track with the short left side
ShortLeftTrack ==
    [left_segments  |-> TrackSegments("left", 1),
     right_segments |-> TrackSegments("right", 2)]

\* the rows a spreadsheet is made of; the three-label text is paired with
\* the one-segment range only, the short left track only with a row that
\* reads a second segment of the left side
RowInputs ==
    { r \in [name : RoadNames, start_stake : {st[1] : st \in RowStakes},
             end_stake : {st[2] : st \in RowStakes},
             interval : {st[3] : st \in RowStakes},
             direction_text : DirectionTexts, lookups_ok : BOOLEAN,
             track_ok : BOOLEAN, track : TrackResults \cup {NoTrackResult}] :
        /\ r.track_ok <=> r.track # NoTrackResult
        /\ <<r.start_stake, r.end_stake, r.interval>> \in RowStakes
        /\ Len(r.direction_text) >= 5 /\ r.direction_text[1] = "up"
              => r.end_stake = K0_100
        /\ r.track = ShortLeftTrack
              => /\ r.end_stake = K0_180
                 /\ r.direction_text = <<" ", "west", " ", "/", " ", "east">> }

\* largest number of import requests the server receives
MaxRequests == 2
\* largest number of rows of the file of such a request
MaxRequestRows == 2

Handlers == 1..MaxRequests

----------------------------------------------------------------------------
VARIABLES
    \* station parser run: the arguments and the outcome of one call
    start_stake, end_stake, interval, parse_pc, parse_result,
    \* import runs of one CountryRoadService instance
    pc,                    \* position in process_country_road_import
    runs,                  \* number of import runs started
    created_level1_roads,  \* self.created_level1_roads: road name -> level-1 id
    total_rows,            \* len(df)
    row_idx,               \* rows of the current run already handled
    row,                   \* the spreadsheet row being handled
    processed_data,        \* result of process_excel_row for that row
    results,               \* the results dictionary of create_road_network
    seg_idx,               \* segment_idx of the segment loop (1-based)
    dir_idx,               \* position in the direction loop (1-based)
    level2_id,             \* id of the level-2 node of the current segment
    import_results,        \* the results dictionary of the import run
    requests,              \* creation requests sent for the current row
    warnings,              \* geometry warnings printed for the current row
    run_level1,            \* level-1 creation requests sent in the current run
    cleared_names,         \* road names the clearing of the table has removed
                           \* (kept while the first row of the run is handled)
    row_note,           \* what is kept of the row just handled up to the
                           \* next turn of the row loop: what made it raise
                           \* ("track", "other"), or "warned" for a row
                           \* without errors whose geometry lookups failed
    \* one request to the import endpoint of the router
    file,                  \* the uploaded file
    endpoint_pc,           \* position in import_country_roads
    response,              \* what the endpoint answers
    \* one call of a coordinate conversion of the track generator
    gw_function,           \* "bd09_to_bd09mc" or "bd09mc_to_bd09"
    coordinates,           \* the points passed to the call
    gw_pc,                 \* position in the call
    batch_start,           \* i of the batch loop (0-based)
    result_coords,         \* the points collected so far
    gw_log,                \* the requests sent and the pauses made, in order
    \* one call of create_road_segments_along_track
    mc_coordinates,        \* the points of the track line
    interval_meters,       \* the segment interval
    segmenter_pc,          \* position in the call
    road_segments,         \* the list the call returns
    loop_distance,         \* distance of the while loop, when the loop is stepped
    \* one row's stake range and centre line, through process_excel_row
    mc_coords,             \* the centre line in the metric plane (BD-09MC)
    road_width,            \* the road width of the row
    right_reversed,        \* whether the build's offset of the right side
                           \* runs against the centre line
    tracks_pc,             \* position in generate_parallel_tracks
    track_out,             \* the track result it returns
    \* several requests to the import endpoint on one event loop
    loop_owner,            \* the handler the event loop is running, 0 for none
    handler_pc,            \* position of every handler
    handler_rows,          \* rows every handler has still to go through
    handler_name,          \* road name of the row a handler is at
    CREATED_LEVEL1_ROADS,  \* the router's table: road name -> level-1 id
    run_order              \* the handlers in the order in which they have
                           \* touched the table or sent creation requests,
                           \* a handler entered anew after another one

parse_vars == <<start_stake, end_stake, interval, parse_pc, parse_result>>

import_vars ==
    <<pc, runs, created_level1_roads, total_rows, row_idx, row, processed_data,
      results, seg_idx, dir_idx, level2_id, import_results, requests, warnings,
      run_level1, cleared_names, row_note>>

endpoint_vars == <<file, endpoint_pc, response>>

\* the variables of the components the parser and the import runs do not touch
gateway_vars ==
    <<gw_function, coordinates, gw_pc, batch_start, result_coords, gw_log>>

segmenter_vars ==
    <<mc_coordinates, interval_meters, segmenter_pc, road_segments, loop_distance>>

corridor_vars == <<mc_coords, road_width, right_reversed, tracks_pc, track_out>>

\* the variables of the components added to the five above
server_vars ==
    <<loop_owner, handler_pc, handler_rows, handler_name,
      CREATED_LEVEL1_ROADS, run_order>>

extra_vars == <<corridor_vars, server_vars>>

rest_vars == <<endpoint_vars, gateway_vars, segmenter_vars, extra_vars>>

vars == <<parse_vars, import_vars, rest_vars>>

NoResult == [status |-> "none", segments |-> <<>>, total_m |-> 0]

NoTrack == [left_segments |-> <<>>, right_segments |-> <<>>]

NoRow ==
    [name |-> "", start_stake |-> <<>>, end_stake |-> <<>>, interval |-> 0,
     direction_text |-> <<>>, lookups_ok |-> FALSE, track_ok |-> FALSE,
     track |-> NoTrack]

NoData ==
    [ok |-> FALSE, name |-> "", stake_segments |-> <<>>,
     drive_direction_values |-> <<>>, interval |-> 0, track_result |-> NoTrack,
     error |-> "none"]

\* the results dictionary create_road_network starts from
NewResults(road_name) ==
    [road_name |-> road_name, level1_id |-> NoneId, level2_ids |-> <<>>,
     level3_ids |-> <<>>, errors |-> <<>>]

\* the results dictionary process_country_road_import starts from
NewImportResults(n) ==
    [success |-> TRUE, total_rows |-> n, processed_rows |-> 0,
     failed_rows |-> 0, errors |-> <<>>, message |-> "none"]

\* the dictionary returned when required fields are missing
ValidationFailed ==
    [success |-> FALSE, total_rows |-> 0, processed_rows |-> 0,
     failed_rows |-> 0, errors |-> <<"validation_failed">>,
     message |-> "validation_failed"]

ImportIdle ==
    /\ pc = "idle"
    /\ runs = 0
    /\ created_level1_roads = <<>>
    /\ total_rows = 0
    /\ row_idx = 0
    /\ row = NoRow
    /\ processed_data = NoData
    /\ results = NewResults("")
    /\ seg_idx = 1
    /\ dir_idx = 1
    /\ level2_id = NoneId
    /\ import_results = NewImportResults(0)
    /\ requests = <<>>
    /\ warnings = <<>>
    /\ run_level1 = <<>>
    /\ cleared_names = {}
    /\ row_note = "none"

ParseUnused ==
    /\ start_stake = <<>>
    /\ end_stake = <<>>
    /\ interval = 0
    /\ parse_pc = "unused"
    /\ parse_result = NoResult

NoFile == [filename_ok |-> FALSE, readable |-> FALSE, rows |-> <<>>]

NoResponse == [kind |-> "none"]

EndpointUnused ==
    /\ file = NoFile
    /\ endpoint_pc = "unused"
    /\ response = NoResponse

GatewayUnused ==
    /\ gw_function = "none"
    /\ coordinates = <<>>
    /\ gw_pc = "unused"
    /\ batch_start = 0
    /\ result_coords = <<>>
    /\ gw_log = <<>>

SegmenterUnused ==
    /\ mc_coordinates = <<>>
    /\ interval_meters = 0
    /\ segmenter_pc = "unused"
    /\ road_segments = <<>>
    /\ loop_distance = 0

CorridorUnused ==
    /\ mc_coords = <<>>
    /\ road_width = 0
    /\ right_reversed = FALSE
    /\ tracks_pc = "unused"
    /\ track_out = NoTrack

ServerUnused ==
    /\ loop_owner = 0
    /\ handler_pc = [h \in Handlers |-> "unused"]
    /\ handler_rows = [h \in Handlers |-> 0]
    /\ handler_name = [h \in Handlers |-> ""]
    /\ CREATED_LEVEL1_ROADS = <<>>
    /\ run_order = <<>>

ExtraUnused == CorridorUnused /\ ServerUnused

RestUnused ==
    EndpointUnused /\ GatewayUnused /\ SegmenterUnused /\ ExtraUnused

----------------------------------------------------------------------------
(* Specification of the station parser alone *)

InitParse ==
    /\ start_stake \in StakeTexts
    /\ end_stake \in StakeTexts
    /\ interval \in Intervals
    /\ parse_pc = "call"
    /\ parse_result = NoResult
    /\ ImportIdle
    /\ RestUnused

\* one call of parse_stake_range
ParseStakeRange ==
    /\ parse_pc = "call"
    /\ parse_result' = parse_stake_range(start_stake, end_stake, interval)
    /\ parse_pc' = "done"
    /\ UNCHANGED <<start_stake, end_stake, interval, import_vars, rest_vars>>

NextParse == ParseStakeRange

SpecParse == InitParse /\ [][NextParse]_vars

----------------------------------------------------------------------------
(* Specification of the import runs *)

\* the except clause of the row loop: the loop goes on with the next row
AfterRowFailureAbort(idx, total) == [pc |-> "row", row_idx |-> total]

AfterRowFailure(idx, total) == [pc |-> "row", row_idx |-> idx + 1]

\* self.created_level1_roads.clear() at the start of a run
ClearedTableKept(table) == table

ClearedTable(table) == <<>>

\* the remote service answers a successful creation with a fresh id
NewId == <<runs, row_idx + 1, Len(requests) + 1>>

Level1Request(road_name, ok) ==
    [level |-> 1, ok |-> ok, id |-> IF ok THEN NewId ELSE NoneId,
     parent |-> NoneId, name |-> road_name, seg |-> 0, dir |-> 0,
     label |-> <<>>, segment_start |-> <<>>, segment_end |-> <<>>,
     geojson |-> <<>>, length |-> 0]

\* "length" of the level-2 payload: road_data.get("interval", 100)
Level2Length(road_data) == road_data.interval

Level2Request(parent_id, segment_start, segment_end, ok) ==
    [level |-> 2, ok |-> ok, id |-> IF ok THEN NewId ELSE NoneId,
     parent |-> parent_id, name |-> "", seg |-> seg_idx, dir |-> 0,
     label |-> <<>>, segment_start |-> segment_start,
     segment_end |-> segment_end, geojson |-> <<>>,
     length |-> Level2Length(processed_data)]

Level3Request(parent_id, segment_start, segment_end, direction, geojson, ok) ==
    [level |-> 3, ok |-> ok, id |-> IF ok THEN NewId ELSE NoneId,
     parent |-> parent_id, name |-> "", seg |-> seg_idx, dir |-> dir_idx,
     label |-> direction, segment_start |-> segment_start,
     segment_end |-> segment_end, geojson |-> geojson, length |-> 0]

\* the row loop after create_road_network: a result with errors counts the
\* row as failed, any other as processed; the warnings printed for the row
\* are not looked at
CountRowWarningsFail(r, errors, row_warnings) ==
    IF errors # <<>> \/ row_warnings # <<>>
    THEN [r EXCEPT !.failed_rows = @ + 1, !.errors = @ \o errors]
    ELSE [r EXCEPT !.processed_rows = @ + 1]

CountRow(r, errors, row_warnings) ==
    IF errors # <<>>
    THEN [r EXCEPT !.failed_rows = @ + 1, !.errors = @ \o errors]
    ELSE [r EXCEPT !.processed_rows = @ + 1]

\* the final result: success stays True unless a row has failed
FinalResultsKeepSuccess(r) ==
    IF r.failed_rows > 0
    THEN [r EXCEPT !.message = "partly_failed"]
    ELSE [r EXCEPT !.message = "all_processed"]

FinalResults(r) ==
    IF r.failed_rows > 0
    THEN [r EXCEPT !.success = FALSE, !.message = "partly_failed"]
    ELSE [r EXCEPT !.message = "all_processed"]

Init == ParseUnused /\ ImportIdle /\ RestUnused

\* process_country_road_import up to the row loop: clear the table,
\* validate the required fields, read the rows
StartImport ==
    /\ pc \in {"idle", "finished"}
    /\ runs < MaxRuns
    /\ runs' = runs + 1
    /\ created_level1_roads' = ClearedTable(created_level1_roads)
    /\ run_level1' = <<>>
    /\ cleared_names' = DOMAIN created_level1_roads
    /\ row_note' = "none"
    /\ requests' = <<>>
    /\ warnings' = <<>>
    /\ row_idx' = 0
    /\ row' = NoRow
    /\ processed_data' = NoData
    /\ results' = NewResults("")
    /\ seg_idx' = 1
    /\ dir_idx' = 1
    /\ level2_id' = NoneId
    /\ \E valid \in BOOLEAN :
          IF valid
          THEN \E n \in 0..MaxRows :
                  /\ total_rows' = n
                  /\ import_results' = NewImportResults(n)
                  /\ pc' = "row"
          ELSE /\ total_rows' = 0
               /\ import_results' = ValidationFailed
               /\ pc' = "finished"
    /\ UNCHANGED <<parse_vars, rest_vars>>

\* one turn of the row loop up to the call of create_road_network:
\* process_excel_row on the next row
ProcessRow ==
    /\ pc = "row"
    /\ row_idx < total_rows
    /\ \E r \in RowInputs :
          LET data == process_excel_row(r)
          IN  /\ row' = IF data.ok THEN r ELSE NoRow
              /\ requests' = <<>>
              /\ warnings' = <<>>
              /\ seg_idx' = 1
              /\ dir_idx' = 1
              /\ level2_id' = NoneId
              /\ IF data.ok
                 THEN /\ processed_data' = data
                      /\ results' = NewResults(data.name)
                      /\ pc' = "level1"
                      /\ row_note' = "none"
                      /\ UNCHANGED <<row_idx, import_results, cleared_names>>
                 ELSE \* the except clause of the row loop
                      /\ processed_data' = NoData
                      /\ cleared_names' = {}
                      /\ row_note' = data.error
                      /\ results' = NewResults("")
                      /\ import_results' =
                            [import_results EXCEPT
                               !.failed_rows = @ + 1,
                               !.errors = Append(@, "row_failed")]
                      /\ row_idx' = AfterRowFailure(row_idx, total_rows).row_idx
                      /\ pc' = AfterRowFailure(row_idx, total_rows).pc
    /\ UNCHANGED <<runs, created_level1_roads, total_rows, run_level1,
                   parse_vars, rest_vars>>

\* create_road_network, step 1: reuse or create the level-1 node
ResolveLevel1 ==
    /\ pc = "level1"
    /\ LET road_name == processed_data.name
           total_segments == Len(processed_data.stake_segments)
           first == IF total_segments >= 1 THEN "level2" ELSE "row_end"
       IN  IF road_name \in DOMAIN created_level1_roads
           THEN /\ results' = [results EXCEPT
                                 !.level1_id = created_level1_roads[road_name]]
                /\ pc' = first
                /\ UNCHANGED <<created_level1_roads, requests, run_level1>>
           ELSE \E ok \in BOOLEAN :
                  LET req == Level1Request(road_name, ok)
                  IN  /\ requests' = Append(requests, req)
                      /\ run_level1' = Append(run_level1, req)
                      /\ IF ok
                         THEN /\ created_level1_roads' =
                                    RecordLevel1(created_level1_roads, road_name, req.id)
                              /\ results' = [results EXCEPT !.level1_id = req.id]
                              /\ pc' = first
                         ELSE /\ results' = [results EXCEPT
                                    !.errors = Append(@, "level1_failed")]
                              /\ pc' = AfterLevel1Failure(first)
                              /\ created_level1_roads' =
                                    TableAfterLevel1Failure(
                                        created_level1_roads, road_name)
    /\ UNCHANGED <<runs, total_rows, row_idx, row, processed_data, seg_idx,
                   dir_idx, level2_id, import_results, warnings, cleared_names,
                   row_note,
                   parse_vars, rest_vars>>

\* create_road_network, step 2: the level-2 node of segment seg_idx
CreateLevel2 ==
    /\ pc = "level2"
    /\ LET segment == processed_data.stake_segments[seg_idx]
           total_segments == Len(processed_data.stake_segments)
           direction_count == Len(processed_data.drive_direction_values)
       IN  \E ok \in BOOLEAN :
             LET req == Level2Request(results.level1_id, segment[1], segment[2], ok)
                 next == IF ok
                         THEN IF direction_count >= 1
                              THEN [pc |-> "level3", seg_idx |-> seg_idx]
                              ELSE NextSegment(seg_idx, total_segments)
                         ELSE AfterLevel2Failure(seg_idx, total_segments)
             IN  /\ requests' = Append(requests, req)
                 /\ results' =
                       IF ok
                       THEN [results EXCEPT !.level2_ids = Append(@, req.id)]
                       ELSE [results EXCEPT !.errors = Append(@, "level2_failed")]
                 /\ level2_id' = IF ok THEN req.id ELSE level2_id
                 /\ pc' = next.pc
                 /\ seg_idx' = next.seg_idx
                 /\ dir_idx' = 1
    /\ UNCHANGED <<runs, created_level1_roads, total_rows, row_idx, row,
                   processed_data, import_results, warnings, run_level1,
                   cleared_names, row_note, parse_vars, rest_vars>>

\* create_road_network, step 3: the level-3 node of direction dir_idx of
\* segment seg_idx
CreateLevel3 ==
    /\ pc = "level3"
    /\ LET segment == processed_data.stake_segments[seg_idx]
           total_segments == Len(processed_data.stake_segments)
           direction_count == Len(processed_data.drive_direction_values)
           direction_label == processed_data.drive_direction_values[dir_idx]
           stakes == Level3Stakes(dir_idx - 1, segment[1], segment[2])
           parent == Level3Parent(results.level1_id, level2_id)
           geo == Level3Geometry(processed_data.track_result, direction_label,
                                 SegmentIndex(seg_idx))
       IN  \E ok \in BOOLEAN :
             LET req == Level3Request(parent, stakes[1], stakes[2],
                                      direction_label, geo.geojson, ok)
                 next == IF ok
                         THEN NextDirection(dir_idx, direction_count,
                                            seg_idx, total_segments)
                         ELSE AfterLevel3Failure(dir_idx, direction_count,
                                                 seg_idx, total_segments)
             IN  /\ requests' = Append(requests, req)
                 /\ warnings' = IF geo.warning = "" THEN warnings
                                ELSE Append(warnings, geo.warning)
                 /\ results' =
                       IF ok
                       THEN [results EXCEPT !.level3_ids = Append(@, req.id)]
                       ELSE [results EXCEPT !.errors = Append(@, "level3_failed")]
                 /\ pc' = next.pc
                 /\ seg_idx' = next.seg_idx
                 /\ dir_idx' = next.dir_idx
    /\ UNCHANGED <<runs, created_level1_roads, total_rows, row_idx, row,
                   processed_data, level2_id, import_results, run_level1,
                   cleared_names, row_note, parse_vars, rest_vars>>

\* the row loop after create_road_network has returned
FinishRow ==
    /\ pc = "row_end"
    /\ import_results' = CountRow(import_results, results.errors, warnings)
    /\ row_idx' = row_idx + 1
    /\ pc' = "row"
    \* the locals of the finished turn of the loop are dead
    /\ row' = NoRow
    /\ processed_data' = NoData
    /\ results' = NewResults("")
    /\ requests' = <<>>
    /\ warnings' = <<>>
    /\ seg_idx' = 1
    /\ dir_idx' = 1
    /\ level2_id' = NoneId
    /\ cleared_names' = {}
    /\ row_note' = IF warnings # <<>> /\ results.errors = <<>>
                      THEN "warned" ELSE "none"
    /\ UNCHANGED <<runs, created_level1_roads, total_rows, run_level1,
                   parse_vars, rest_vars>>

\* process_country_road_import after the row loop
FinishImport ==
    /\ pc = "row"
    /\ row_idx = total_rows
    /\ import_results' = FinalResults(import_results)
    /\ pc' = "finished"
    /\ row_note' = "none"
    /\ UNCHANGED <<runs, created_level1_roads, total_rows, row_idx, row,
                   processed_data, results, seg_idx, dir_idx, level2_id,
                   requests, warnings, run_level1, cleared_names, parse_vars,
                   rest_vars>>

Next ==
    \/ StartImport
    \/ ProcessRow
    \/ ResolveLevel1
    \/ CreateLevel2
    \/ CreateLevel3
    \/ FinishRow
    \/ FinishImport

Spec == Init /\ [][Next]_vars

----------------------------------------------------------------------------
(* The import endpoint of the router *)

MaxUploadRows == 2

\* result["errors"][:10]
ErrorLimit == 10

\* a row of an uploaded spreadsheet: whether a required field is missing,
\* whether process_excel_row raises on it, and how many errors
\* create_road_network reports for it
UploadRows ==
    { [missing |-> TRUE,  raised |-> FALSE, errors |-> 0],
      [missing |-> FALSE, raised |-> FALSE, errors |-> 0],
      [missing |-> FALSE, raised |-> TRUE,  errors |-> 0],
      [missing |-> FALSE, raised |-> FALSE, errors |-> 1],
      [missing |-> FALSE, raised |-> FALSE, errors |-> 6] }

\* the uploads: the file name ends with .xlsx or .xls or not, pandas can
\* read the content or not
Uploads ==
    [filename_ok : BOOLEAN, readable : BOOLEAN,
     rows : UNION { [1..k -> UploadRows] : k \in 0..MaxUploadRows }]

\* validate_required_fields: one message per row with a missing field,
\* naming the row of the sheet (idx + 3 for the 0-based idx)
validate_required_fields(rows) ==
    LET missing == SelectSeq([i \in 1..Len(rows) |-> i],
                             LAMBDA i : rows[i].missing)
    IN  [k \in 1..Len(missing) |-> <<"missing", missing[k] + 2, 0>>]

\* road_result["errors"] of the row at position i
NetworkErrors(i, count) == [j \in 1..count |-> <<"network", i + 2, j>>]

\* the row loop of the router's process_country_road_import from row i on
RECURSIVE RouterRowLoop(_, _, _)
RouterRowLoop(rows, i, batch) ==
    IF i > Len(rows) THEN batch
    ELSE IF rows[i].raised
    THEN RouterRowLoop(rows, i + 1,
             [batch EXCEPT !.failed_rows = @ + 1,
                             !.errors = Append(@, <<"row_failed", i + 2, 0>>)])
    ELSE IF rows[i].errors > 0
    THEN RouterRowLoop(rows, i + 1,
             [batch EXCEPT !.failed_rows = @ + 1,
                             !.road_results = Append(@, i),
                             !.errors = @ \o NetworkErrors(i, rows[i].errors)])
    ELSE RouterRowLoop(rows, i + 1,
             [batch EXCEPT !.processed_rows = @ + 1,
                             !.road_results = Append(@, i)])

\* the router's process_country_road_import: the dictionary it returns
\* (batch is its results dictionary)
process_country_road_import(rows) ==
    LET validation_errors == validate_required_fields(rows)
        batch == RouterRowLoop(rows, 1,
                       [success |-> TRUE, total_rows |-> Len(rows),
                        processed_rows |-> 0, failed_rows |-> 0,
                        road_results |-> <<>>, errors |-> <<>>,
                        message |-> "none"])
    IN  IF validation_errors # <<>>
        THEN [success |-> FALSE, message |-> "validation_failed",
              errors |-> validation_errors]
        ELSE IF batch.failed_rows > 0
        THEN [batch EXCEPT !.success = FALSE, !.message = "partly_failed"]
        ELSE [batch EXCEPT !.message = "all_processed"]

HTTPException(status_code, detail) ==
    [kind |-> "http_exception", status_code |-> status_code, detail |-> detail]

JSONResponse(status_code, code, message, data) ==
    [kind |-> "json", status_code |-> status_code, code |-> code,
     message |-> message, data |-> data]

\* errors[:10]
FirstErrors(errors) == SubSeq(errors, 1, Min(Len(errors), ErrorLimit))

\* import_country_roads: the response, or the HTTPException raised
import_country_roads(f) ==
    IF ~f.filename_ok THEN HTTPException(400, "not_excel")
    ELSE IF ~f.readable THEN HTTPException(500, "read_failed")
    ELSE LET result == process_country_road_import(f.rows)
         IN  IF result.success
             THEN JSONResponse(200, 0, result.message,
                      [total_rows |-> result.total_rows,
                       processed_rows |-> result.processed_rows,
                       failed_rows |-> result.failed_rows,
                       road_results |-> result.road_results])
             ELSE IF "total_rows" \notin DOMAIN result
             THEN \* result["total_rows"] raises KeyError, caught below
                  HTTPException(500, "KeyError_total_rows")
             ELSE JSONResponse(400, 1, result.message,
                      [total_rows |-> result.total_rows,
                       processed_rows |-> result.processed_rows,
                       failed_rows |-> result.failed_rows,
                       errors |-> FirstErrors(result.errors)])

InitEndpoint ==
    /\ file \in Uploads
    /\ endpoint_pc = "call"
    /\ response = NoResponse
    /\ ParseUnused
    /\ ImportIdle
    /\ GatewayUnused
    /\ SegmenterUnused
    /\ ExtraUnused

\* one request to /import_data
ImportCountryRoads ==
    /\ endpoint_pc = "call"
    /\ response' = import_country_roads(file)
    /\ endpoint_pc' = "done"
    /\ UNCHANGED <<file, parse_vars, import_vars, gateway_vars, segmenter_vars,
                   extra_vars>>

NextEndpoint == ImportCountryRoads

SpecEndpoint == InitEndpoint /\ [][NextEndpoint]_vars

----------------------------------------------------------------------------
(* The coordinate conversions of the track generator *)

MaxChunks == 2

\* batch_size of bd09_to_bd09mc and bd09mc_to_bd09
BatchSize == 100

\* the numbers of points of a call: around every multiple of the batch size
PointCounts ==
    { n \in { k * BatchSize + d : k \in 0..MaxChunks, d \in {-1, 0, 1} } : n >= 0 }

\* the points of a call are told apart by their position
PointList(n) == [p \in 1..n |-> p]

\* what the upstream service makes of a point
UpstreamTransform(point) == 0 - point

\* coordinates[i : i + batch_size]
Batch(points, i) == SubSeq(points, i + 1, Min(i + BatchSize, Len(points)))

\* what a request for a batch can end with: a timeout or a connection
\* error, an HTTP error status, a body whose status is not 0, or a body
\* with status 0 and a result list, which the code takes as it comes
UpstreamAnswers(batch) ==
    { [status |-> st, result |-> <<>>] :
        st \in {"timeout", "http_error", "api_error"} }
    \cup
    { [status |-> "ok",
       result |-> [j \in 1..count |-> UpstreamTransform(batch[j])]] :
        count \in { Len(batch), Len(batch) - 1 } }

\* the except clause of the batch loop: log and raise again
AfterChunkFailureSkip(i) == [pc |-> "sleep", batch_start |-> i]

AfterChunkFailure(i) == [pc |-> "raised", batch_start |-> i]

NoAnswer == [status |-> "none", result |-> <<>>]

InitGateway ==
    /\ gw_function \in {"bd09_to_bd09mc", "bd09mc_to_bd09"}
    /\ coordinates \in { PointList(n) : n \in PointCounts }
    /\ gw_pc = "call"
    /\ batch_start = 0
    /\ result_coords = <<>>
    /\ gw_log = <<>>
    /\ ParseUnused
    /\ ImportIdle
    /\ EndpointUnused
    /\ SegmenterUnused
    /\ ExtraUnused

\* the call up to the batch loop: bd09_to_bd09mc normalizes its input and
\* refuses an empty list
EnterBatchLoop ==
    /\ gw_pc = "call"
    /\ gw_pc' = IF gw_function = "bd09_to_bd09mc" /\ coordinates = <<>>
                THEN "raised"
                ELSE IF Len(coordinates) = 0 THEN "returned" ELSE "request"
    /\ UNCHANGED <<gw_function, coordinates, batch_start, result_coords, gw_log,
                   parse_vars, import_vars, endpoint_vars, extra_vars, segmenter_vars>>

\* one turn of the batch loop up to the pause: the request for the batch
\* at batch_start and what is made of the answer
SendChunk ==
    /\ gw_pc = "request"
    /\ LET batch == Batch(coordinates, batch_start)
       IN  \E answer \in UpstreamAnswers(batch) :
             /\ gw_log' = Append(gw_log,
                              [event |-> "request", start |-> batch_start,
                               batch |-> batch, answer |-> answer])
             /\ IF answer.status = "ok"
                THEN /\ result_coords' = result_coords \o answer.result
                     /\ gw_pc' = "sleep"
                     /\ UNCHANGED batch_start
                ELSE /\ gw_pc' = AfterChunkFailure(batch_start).pc
                     /\ batch_start' = AfterChunkFailure(batch_start).batch_start
                     /\ UNCHANGED result_coords
    /\ UNCHANGED <<gw_function, coordinates, parse_vars, import_vars,
                   endpoint_vars, extra_vars, segmenter_vars>>

\* time.sleep(0.1) at the end of a turn, then the next turn of the loop or
\* the return of result_coords
Sleep ==
    /\ gw_pc = "sleep"
    /\ gw_log' = Append(gw_log,
                     [event |-> "sleep", start |-> batch_start,
                      batch |-> <<>>, answer |-> NoAnswer])
    /\ batch_start' = batch_start + BatchSize
    /\ gw_pc' = IF batch_start + BatchSize < Len(coordinates)
                THEN "request" ELSE "returned"
    /\ UNCHANGED <<gw_function, coordinates, result_coords, parse_vars,
                   import_vars, endpoint_vars, extra_vars, segmenter_vars>>

NextGateway ==
    \/ EnterBatchLoop
    \/ SendChunk
    \/ Sleep

SpecGateway == InitGateway /\ [][NextGateway]_vars

----------------------------------------------------------------------------
(* The arc-length segmenter of the track generator *)

MaxGrid == 2

MaxSegmentInterval == 3

Abs(x) == IF x < 0 THEN 0 - x ELSE x

\* the points of the track lines: a grid of step 2, so that segment ends
\* fall on points and between them
GridPoints == { <<2 * x, 2 * y>> : x, y \in 0..MaxGrid }

\* the length of the edge from p to q; the edges of the track lines run along
\* an axis, which keeps lengths and interpolated points whole numbers
EdgeLength(p, q) == Abs(q[1] - p[1]) + Abs(q[2] - p[2])

AxisAligned(p, q) == p[1] = q[1] \/ p[2] = q[2]

\* the track lines: two or three points
TrackLines ==
    { l \in [1..2 -> GridPoints] \cup [1..3 -> GridPoints] :
        \A k \in 1..(Len(l) - 1) : AxisAligned(l[k], l[k + 1]) }

\* LineString(mc_coordinates).length
RECURSIVE LineLength(_)
LineLength(l) ==
    IF Len(l) < 2 THEN 0
    ELSE EdgeLength(l[1], l[2]) + LineLength(Tail(l))

Sign(x) == IF x > 0 THEN 1 ELSE IF x < 0 THEN 0 - 1 ELSE 0

\* line.interpolate(d): the point at distance d from the start along the
\* line, the last point for a distance beyond the end
RECURSIVE Interpolate(_, _)
Interpolate(l, d) ==
    IF Len(l) < 2 THEN l[1]
    ELSE LET edge == EdgeLength(l[1], l[2])
         IN  IF d <= edge /\ edge > 0
             THEN <<l[1][1] + Sign(l[2][1] - l[1][1]) * d,
                    l[1][2] + Sign(l[2][2] - l[1][2]) * d>>
             ELSE Interpolate(Tail(l), d - edge)

\* end_distance = min(distance + interval_meters, total_length)
EndDistanceNoClamp(distance, interval_m, total_length) == distance + interval_m

EndDistance(distance, interval_m, total_length) ==
    Min(distance + interval_m, total_length)

\* the while loop of create_road_segments_along_track from distance on
RECURSIVE SegmentLoop(_, _, _, _)
SegmentLoop(l, interval_m, distance, acc) ==
    LET total_length == LineLength(l)
        start_distance == distance
        end_distance == EndDistance(distance, interval_m, total_length)
    IN  IF ~(distance < total_length) THEN acc
        ELSE SegmentLoop(l, interval_m, distance + interval_m,
                 Append(acc,
                     [start_coordinate |-> Interpolate(l, start_distance),
                      end_coordinate   |-> Interpolate(l, end_distance),
                      length           |-> end_distance - start_distance,
                      start_distance   |-> start_distance,
                      end_distance     |-> end_distance]))

create_road_segments_along_track(l, interval_m) ==
    SegmentLoop(l, interval_m, 0, <<>>)

InitSegmenter ==
    /\ mc_coordinates \in TrackLines
    /\ interval_meters \in 1..MaxSegmentInterval
    /\ segmenter_pc = "call"
    /\ road_segments = <<>>
    /\ loop_distance = 0
    /\ ParseUnused
    /\ ImportIdle
    /\ EndpointUnused
    /\ GatewayUnused
    /\ ExtraUnused

\* one call of create_road_segments_along_track
CreateRoadSegmentsAlongTrack ==
    /\ segmenter_pc = "call"
    /\ road_segments' =
          create_road_segments_along_track(mc_coordinates, interval_meters)
    /\ segmenter_pc' = "done"
    /\ UNCHANGED <<mc_coordinates, interval_meters, loop_distance, parse_vars,
                   import_vars,
                   endpoint_vars, extra_vars, gateway_vars>>

NextSegmenter == CreateRoadSegmentsAlongTrack

SpecSegmenter == InitSegmenter /\ [][NextSegmenter]_vars

----------------------------------------------------------------------------
(* The arc-length segmenter, its while loop taken turn by turn *)

\* the most turns of the while loop that are followed
MaxLoopTurns == 3

\* the track lines a call can be given, the empty list and the single point
\* among them
AnyLines ==
    { l \in UNION { [1..k -> GridPoints] : k \in 0..3 } :
        \A k \in 1..(Len(l) - 1) : AxisAligned(l[k], l[k + 1]) }

\* the intervals a call can be given
AnyIntervals == (0 - 1)..MaxSegmentInterval

\* line.interpolate(d) for any d: a negative distance is measured back from
\* the end of the line, and distances off the line are clamped to it
InterpolateAny(l, d) ==
    IF l = <<>> THEN <<>>
    ELSE IF d < 0 THEN Interpolate(l, Max(LineLength(l) + d, 0))
    ELSE Interpolate(l, d)

\* LineString(mc_coordinates): shapely refuses a single point and accepts the
\* empty list as the empty line
LineString(l) == Len(l) # 1

\* the condition of the while loop; the code has no test of interval_meters
LoopCondition(d, interval_m, total_length) == d < total_length

InitSegmenterLoop ==
    /\ mc_coordinates \in AnyLines
    /\ interval_meters \in AnyIntervals
    /\ segmenter_pc = "call"
    /\ road_segments = <<>>
    /\ loop_distance = 0
    /\ ParseUnused
    /\ ImportIdle
    /\ EndpointUnused
    /\ GatewayUnused
    /\ ExtraUnused

\* the call up to the while loop
EnterSegmentLoop ==
    /\ segmenter_pc = "call"
    /\ segmenter_pc' = IF LineString(mc_coordinates) THEN "loop" ELSE "raised"
    /\ UNCHANGED <<mc_coordinates, interval_meters, road_segments, loop_distance,
                   parse_vars, import_vars, endpoint_vars, extra_vars, gateway_vars>>

\* one turn of the while loop
SegmentLoopTurn ==
    /\ segmenter_pc = "loop"
    /\ LoopCondition(loop_distance, interval_meters, LineLength(mc_coordinates))
    /\ Len(road_segments) < MaxLoopTurns
    /\ LET total_length == LineLength(mc_coordinates)
           start_distance == loop_distance
           end_distance == EndDistance(loop_distance, interval_meters, total_length)
       IN  road_segments' =
              Append(road_segments,
                  [start_coordinate |-> InterpolateAny(mc_coordinates, start_distance),
                   end_coordinate   |-> InterpolateAny(mc_coordinates, end_distance),
                   length           |-> end_distance - start_distance,
                   start_distance   |-> start_distance,
                   end_distance     |-> end_distance])
    /\ loop_distance' = loop_distance + interval_meters
    /\ UNCHANGED <<mc_coordinates, interval_meters, segmenter_pc, parse_vars,
                   import_vars, endpoint_vars, extra_vars, gateway_vars>>

\* the loop condition fails: return segments
ReturnSegments ==
    /\ segmenter_pc = "loop"
    /\ ~LoopCondition(loop_distance, interval_meters, LineLength(mc_coordinates))
    /\ segmenter_pc' = "done"
    /\ UNCHANGED <<mc_coordinates, interval_meters, road_segments, loop_distance,
                   parse_vars, import_vars, endpoint_vars, extra_vars, gateway_vars>>

NextSegmenterLoop ==
    \/ EnterSegmentLoop
    \/ SegmentLoopTurn
    \/ ReturnSegments

\* a call that is running goes on running
SpecSegmenterLoop ==
    InitSegmenterLoop /\ [][NextSegmenterLoop]_vars /\ WF_vars(NextSegmenterLoop)

----------------------------------------------------------------------------
(* One row's stake range and centre line: parse_stake_range, then
   generate_parallel_tracks with marker_interval = interval *)

\* stake ranges and intervals of the row
CorridorStakes == { K0_000, K0_100, K0_180, K1_200, K1_280, <<"K", "1", "+">> }

CorridorIntervals == { 80, 100, 200 }

\* lengths, in metres of the metric plane, of the centre lines
CorridorLengths == { 100, 180, 200, 1280 }

\* the centre lines in the metric plane: the empty list, a single point, and
\* straight lines from the origin along an axis
CorridorLines ==
    { <<>>, << <<0, 0>> >> }
    \cup { << <<0, 0>>, <<len, 0>> >> : len \in CorridorLengths }
    \cup { << <<0, 0>>, <<0, len>> >> : len \in CorridorLengths }

RoadWidths == { 0, 8 }

\* the unit normal of a straight line on the given side
SideNormal(l, side) ==
    LET sx == Sign(l[Len(l)][1] - l[1][1])
        sy == Sign(l[Len(l)][2] - l[1][2])
    IN  IF side = "left" THEN <<0 - sy, sx>> ELSE <<sy, 0 - sx>>

Reverse(l) == [k \in 1..Len(l) |-> l[Len(l) + 1 - k]]

\* create_offset_line(mc_coordinates, offset_distance, side) of a straight
\* line: the line moved sideways; reversed says that the offset of this side
\* comes back running against the line, as GEOS before 3.11 does on the right
create_offset_line(l, offset_distance, side, reversed) ==
    LET normal == SideNormal(l, side)
        moved == [k \in 1..Len(l) |->
                    <<l[k][1] + offset_distance * normal[1],
                      l[k][2] + offset_distance * normal[2]>>]
    IN  IF reversed THEN Reverse(moved) ELSE moved

\* convert_segments_to_bd09: the coordinates converted, the lengths kept
convert_segments_to_bd09(segments_mc) ==
    [i \in 1..Len(segments_mc) |->
        [start_coordinate |->
            <<UpstreamTransform(segments_mc[i].start_coordinate[1]),
              UpstreamTransform(segments_mc[i].start_coordinate[2])>>,
         end_coordinate |->
            <<UpstreamTransform(segments_mc[i].end_coordinate[1]),
              UpstreamTransform(segments_mc[i].end_coordinate[2])>>,
         length |-> segments_mc[i].length]]

\* the checks generate_parallel_tracks makes of its arguments
TracksArgumentsValid(l, width) == Len(l) >= 2 /\ width > 0

\* generate_parallel_tracks(..., create_markers=True, marker_interval) once
\* the conversions have answered
generate_parallel_tracks(l, width, marker_interval, reversed) ==
    LET offset_distance == width \div 2
        left_mc_coords == create_offset_line(l, offset_distance, "left", FALSE)
        right_mc_coords == create_offset_line(l, offset_distance, "right", reversed)
    IN  [left_segments |->
            convert_segments_to_bd09(
                create_road_segments_along_track(left_mc_coords, marker_interval)),
         right_segments |->
            convert_segments_to_bd09(
                create_road_segments_along_track(right_mc_coords, marker_interval))]

InitCorridor ==
    /\ start_stake \in CorridorStakes
    /\ end_stake \in CorridorStakes
    /\ interval \in CorridorIntervals
    /\ parse_pc = "call"
    /\ parse_result = NoResult
    /\ mc_coords \in CorridorLines
    /\ road_width \in RoadWidths
    /\ right_reversed \in BOOLEAN
    /\ tracks_pc = "call"
    /\ track_out = NoTrack
    /\ ImportIdle
    /\ EndpointUnused
    /\ GatewayUnused
    /\ SegmenterUnused
    /\ ServerUnused

\* process_excel_row, the call of generate_parallel_tracks: reached when
\* parse_stake_range has returned; a conversion that fails raises
GenerateParallelTracks ==
    /\ parse_pc = "done"
    /\ parse_result.status = "ok"
    /\ tracks_pc = "call"
    /\ IF ~TracksArgumentsValid(mc_coords, road_width)
       THEN /\ tracks_pc' = "raised"
            /\ UNCHANGED track_out
       ELSE \E conversions_ok \in BOOLEAN :
              IF conversions_ok
              THEN /\ track_out' = generate_parallel_tracks(
                                       mc_coords, road_width, interval,
                                       right_reversed)
                   /\ tracks_pc' = "done"
              ELSE /\ tracks_pc' = "raised"
                   /\ UNCHANGED track_out
    /\ UNCHANGED <<mc_coords, road_width, right_reversed, parse_vars,
                   import_vars, endpoint_vars, gateway_vars, segmenter_vars,
                   server_vars>>

NextCorridor ==
    \/ ParseStakeRange
    \/ GenerateParallelTracks

SpecCorridor == InitCorridor /\ [][NextCorridor]_vars

----------------------------------------------------------------------------
(* The router's parse_stake_range(stake_text): one text, a fixed step *)

\* the step of the segment loop: min(current_m + 100, end_total_m)
LegacyStep == 100

\* stake_text.split("-")
RECURSIVE SplitDash(_, _)
SplitDash(text, part) ==
    IF text = <<>> THEN <<part>>
    ELSE IF text[1] = "-" THEN <<part>> \o SplitDash(Tail(text), <<>>)
    ELSE SplitDash(Tail(text), Append(part, text[1]))

\* re.match(r"K(\d+)\+(\d+)-K(\d+)\+(\d+)", s): anchored at the start only
RangeMatch(s) ==
    LET first  == StakeMatch(s)
        dash   == Len(s) - first.rest + 1
        second == StakeMatch(SubSeq(s, dash + 1, Len(s)))
    IN  IF first.ok /\ dash <= Len(s) /\ s[dash] = "-" /\ second.ok
        THEN [ok |-> TRUE, start_total_m |-> TotalMetres(first),
              end_total_m |-> TotalMetres(second)]
        ELSE [ok |-> FALSE, start_total_m |-> 0, end_total_m |-> 0]

\* float(part) accepts, of the texts over digits, "." and blanks: digits with
\* at most one ".", at least one digit, blanks around
DecimalParts(part) ==
    LET s  == Strip(part)
        ni == DigitRun(s, 1)
        dot == ni + 1 <= Len(s) /\ s[ni + 1] = "."
        nf == IF dot THEN DigitRun(s, ni + 2) ELSE 0
    IN  [ok |-> /\ ni + nf >= 1
                /\ Len(s) = ni + nf + (IF dot THEN 1 ELSE 0),
         whole |-> DigitsToInt(SubSeq(s, 1, ni)),
         fraction |-> SubSeq(s, ni + 2, ni + 1 + nf)]

\* the first three digits of a fraction as thousandths
Thousandths(fraction) ==
    DigitsToInt(SubSeq(fraction \o <<"0", "0", "0">>, 1, 3))

\* decimal texts t for which the double float(t) * 1000 lies just below the
\* whole number of metres: 1.001 * 1000 is 1000.9999999999999 and
\* 2.01 * 1000 is 2009.9999999999998 in IEEE-754 double arithmetic
ProductsBelow == { <<"1", ".", "0", "0", "1">>, <<"2", ".", "0", "1">> }

\* int(float(part) * 1000): truncation of the double product
KmToMetresRounded(part) ==
    LET d == DecimalParts(part)
    IN  d.whole * 1000 + Thousandths(d.fraction)

KmToMetres(part) ==
    LET d == DecimalParts(part)
        metres == d.whole * 1000 + Thousandths(d.fraction)
    IN  IF Strip(part) \in ProductsBelow THEN metres - 1 ELSE metres

\* the while loop of the router's parse_stake_range
RECURSIVE LegacySegments(_, _)
LegacySegments(current_m, end_total_m) ==
    IF current_m < end_total_m
    THEN LET segment_end == Min(current_m + LegacyStep, end_total_m)
         IN  <<  <<FormatStake(current_m), FormatStake(segment_end)>>  >>
             \o LegacySegments(segment_end, end_total_m)
    ELSE <<>>

\* parse_stake_range(stake_text) of the router; the ValueError raised is kept
\* as the status "format_error"
legacy_parse_stake_range(stake_text) ==
    LET failed == [status |-> "format_error", segments |-> <<>>, total_m |-> 0]
        done(start_total_m, end_total_m) ==
            [status   |-> "ok",
             segments |-> LegacySegments(start_total_m, end_total_m),
             total_m  |-> end_total_m - start_total_m]
        parts == SplitDash(stake_text, <<>>)
    IN  IF \E i \in 1..Len(stake_text) : stake_text[i] = "K"
        THEN LET match == RangeMatch(stake_text)
             IN  IF ~match.ok THEN failed
                 ELSE done(match.start_total_m, match.end_total_m)
        ELSE IF Len(parts) # 2 THEN failed
        ELSE IF ~DecimalParts(parts[1]).ok \/ ~DecimalParts(parts[2]).ok
             THEN failed
        ELSE done(KmToMetres(parts[1]), KmToMetres(parts[2]))

\* kilometre texts of the bare form
KmTexts ==
    { <<"0">>, <<"1">>, <<"0", ".", "5">>, <<"1", ".", "2", "8">>,
      <<"1", ".", "0", "0", "1">>, <<"2", ".", "0", "1">>,
      <<" ", "2", " ">>, <<"1", ".", "2", ".", "8">>, <<>> }

\* the stake texts: bare ranges, ranges of K stakes, and odd ones
LegacyTexts ==
    { a \o <<"-">> \o b : a, b \in KmTexts }
    \cup { a \o <<"-">> \o b : a, b \in CanonicalStakes }
    \cup { K0_000 \o <<"-">> \o K1_280 \o <<"a", "b", "c">>,
           <<" ">> \o K0_000 \o <<"-">> \o K1_280,
           K0_000 \o <<"-">> \o <<"1", ".", "2", "8">>,
           <<"0", "-", "1", "-", "2">>,
           K0_000, <<"1", ".", "2", "8">>, <<>> }

InitLegacyParse ==
    /\ start_stake \in LegacyTexts
    /\ end_stake = <<>>
    /\ interval = LegacyStep
    /\ parse_pc = "call"
    /\ parse_result = NoResult
    /\ ImportIdle
    /\ RestUnused

\* one call of the router's parse_stake_range; start_stake holds stake_text
LegacyParseStakeRange ==
    /\ parse_pc = "call"
    /\ parse_result' = legacy_parse_stake_range(start_stake)
    /\ parse_pc' = "done"
    /\ UNCHANGED <<start_stake, end_stake, interval, import_vars, rest_vars>>

NextLegacyParse == LegacyParseStakeRange

SpecLegacyParse == InitLegacyParse /\ [][NextLegacyParse]_vars

----------------------------------------------------------------------------
(* Several import requests on the server: import_country_roads is a
   coroutine of one event loop; it awaits file.read() and then calls the
   synchronous process_country_road_import, which works on the module-level
   table CREATED_LEVEL1_ROADS *)

\* the event loop starts or resumes a coroutine only when none is running: a
\* running coroutine keeps the loop until it awaits or returns
LoopFreeAlways(owner) == TRUE

LoopFree(owner) == owner = 0

\* the run of a handler touches the table or sends a creation request
Touch(h) ==
    IF run_order # <<>> /\ run_order[Len(run_order)] = h THEN run_order
    ELSE Append(run_order, h)

InitServer ==
    /\ loop_owner = 0
    /\ handler_pc = [h \in Handlers |-> "idle"]
    /\ handler_rows = [h \in Handlers |-> 0]
    /\ handler_name = [h \in Handlers |-> ""]
    /\ CREATED_LEVEL1_ROADS = <<>>
    /\ run_order = <<>>
    /\ ParseUnused
    /\ ImportIdle
    /\ EndpointUnused
    /\ GatewayUnused
    /\ SegmenterUnused
    /\ CorridorUnused

\* a request arrives: the handler runs up to "await file.read()", or answers
\* 400 for a file name that is not .xlsx or .xls
AcceptRequest(h) ==
    /\ handler_pc[h] = "idle"
    /\ LoopFree(loop_owner)
    /\ \E filename_ok \in BOOLEAN :
          handler_pc' = [handler_pc EXCEPT
                           ![h] = IF filename_ok THEN "reading" ELSE "done"]
    /\ UNCHANGED <<loop_owner, handler_rows, handler_name,
                   CREATED_LEVEL1_ROADS, run_order>>

\* the read is over and the loop resumes the handler, which enters
\* process_country_road_import
ResumeHandler(h) ==
    /\ handler_pc[h] = "reading"
    /\ LoopFree(loop_owner)
    /\ loop_owner' = h
    /\ handler_pc' = [handler_pc EXCEPT ![h] = "clear"]
    /\ UNCHANGED <<handler_rows, handler_name, CREATED_LEVEL1_ROADS, run_order>>

\* CREATED_LEVEL1_ROADS.clear(), validation, reading of the rows
ClearAndRead(h) ==
    /\ handler_pc[h] = "clear"
    /\ loop_owner = h
    /\ CREATED_LEVEL1_ROADS' = <<>>
    /\ run_order' = Touch(h)
    /\ \E n \in 0..MaxRequestRows :
          handler_rows' = [handler_rows EXCEPT ![h] = n]
    /\ handler_pc' = [handler_pc EXCEPT ![h] = "row"]
    /\ UNCHANGED <<loop_owner, handler_name>>

\* a row up to "if road_name in CREATED_LEVEL1_ROADS"; a row whose
\* processing raises is left at once
LookupLevel1(h) ==
    /\ handler_pc[h] = "row"
    /\ loop_owner = h
    /\ handler_rows[h] > 0
    /\ \E road_name \in RoadNames \cup {""} :
          IF road_name = ""
          THEN /\ handler_rows' = [handler_rows EXCEPT ![h] = @ - 1]
               /\ UNCHANGED <<handler_pc, handler_name, run_order>>
          ELSE /\ handler_name' = [handler_name EXCEPT ![h] = road_name]
               /\ run_order' = Touch(h)
               /\ handler_pc' =
                     [handler_pc EXCEPT
                        ![h] = IF road_name \in DOMAIN CREATED_LEVEL1_ROADS
                               THEN "segments" ELSE "create"]
               /\ UNCHANGED handler_rows
    /\ UNCHANGED <<loop_owner, CREATED_LEVEL1_ROADS>>

\* create_road_level1 and CREATED_LEVEL1_ROADS[road_name] = level1_id; a
\* failed creation ends the row
CreateLevel1(h) ==
    /\ handler_pc[h] = "create"
    /\ loop_owner = h
    /\ run_order' = Touch(h)
    /\ \E ok \in BOOLEAN :
          IF ok
          THEN /\ CREATED_LEVEL1_ROADS' =
                     RecordLevel1(CREATED_LEVEL1_ROADS, handler_name[h],
                                  <<h, handler_rows[h]>>)
               /\ handler_pc' = [handler_pc EXCEPT ![h] = "segments"]
               /\ UNCHANGED <<handler_rows, handler_name>>
          ELSE /\ handler_pc' = [handler_pc EXCEPT ![h] = "row"]
               /\ handler_rows' = [handler_rows EXCEPT ![h] = @ - 1]
               /\ handler_name' = [handler_name EXCEPT ![h] = ""]
               /\ UNCHANGED CREATED_LEVEL1_ROADS
    /\ UNCHANGED loop_owner

\* the level-2 and level-3 creation requests of the row
CreateSegments(h) ==
    /\ handler_pc[h] = "segments"
    /\ loop_owner = h
    /\ run_order' = Touch(h)
    /\ handler_pc' = [handler_pc EXCEPT ![h] = "row"]
    /\ handler_rows' = [handler_rows EXCEPT ![h] = @ - 1]
    /\ handler_name' = [handler_name EXCEPT ![h] = ""]
    /\ UNCHANGED <<loop_owner, CREATED_LEVEL1_ROADS>>

\* process_country_road_import returns and the handler answers
ReturnResponse(h) ==
    /\ handler_pc[h] = "row"
    /\ loop_owner = h
    /\ handler_rows[h] = 0
    /\ handler_pc' = [handler_pc EXCEPT ![h] = "done"]
    /\ loop_owner' = 0
    /\ UNCHANGED <<handler_rows, handler_name, CREATED_LEVEL1_ROADS, run_order>>

NextServer ==
    \E h \in Handlers :
        /\ \/ AcceptRequest(h)
           \/ ResumeHandler(h)
           \/ ClearAndRead(h)
           \/ LookupLevel1(h)
           \/ CreateLevel1(h)
           \/ CreateSegments(h)
           \/ ReturnResponse(h)
        /\ UNCHANGED <<parse_vars, import_vars, endpoint_vars, gateway_vars,
                       segmenter_vars, corridor_vars>>

SpecServer == InitServer /\ [][NextServer]_vars

----------------------------------------------------------------------------
(* Station parser: properties *)

\* the whole text is K<km>+<metres>, nothing before or after
IsCanonicalStake(s) == StakeMatch(s).ok /\ StakeMatch(s).rest = 0

\* offset in metres denoted by a stake text
StakeOffset(s) == TotalMetres(StakeMatch(s))

ParseDone == parse_pc = "done"

ParseOk == ParseDone /\ parse_result.status = "ok"

StartOffset == StakeOffset(Strip(start_stake))

EndOffset == StakeOffset(Strip(end_stake))

SegStart(i) == StakeOffset(parse_result.segments[i][1])

SegEnd(i) == StakeOffset(parse_result.segments[i][2])

NumSegs == Len(parse_result.segments)

\* C2: whenever parse_stake_range succeeds, the returned segments tile
\* [start, end]: the first segment starts at the start offset, the last ends
\* at the end offset, every segment runs forward, and each segment's end
\* stake text is the next segment's start stake text.
C2_SegmentsTileRange ==
    ParseOk =>
        /\ NumSegs >= 1
        /\ SegStart(1) = StartOffset
        /\ SegEnd(NumSegs) = EndOffset
        /\ \A i \in 1..NumSegs : SegStart(i) < SegEnd(i)
        /\ \A i \in 1..(NumSegs - 1) :
              parse_result.segments[i][2] = parse_result.segments[i + 1][1]

\* a successful call with several segments and a short last one
C2_Witness ==
    /\ ParseOk
    /\ NumSegs >= 3
    /\ SegEnd(NumSegs) - SegStart(NumSegs) < interval

CeilDiv(a, b) == (a + b - 1) \div b

\* C3: a successful call returns ceil((end-start)/interval) segments, all
\* but the last spanning exactly interval metres and the last spanning more
\* than 0 and at most interval metres; K0+000..K1+280 at 100 gives 13
\* segments, the last being K1+200 to K1+280.
C3_SegmentCountAndLengths ==
    ParseOk =>
        /\ NumSegs = CeilDiv(EndOffset - StartOffset, interval)
        /\ \A i \in 1..(NumSegs - 1) : SegEnd(i) - SegStart(i) = interval
        /\ SegEnd(NumSegs) - SegStart(NumSegs) > 0
        /\ SegEnd(NumSegs) - SegStart(NumSegs) <= interval
        /\ (start_stake = K0_000 /\ end_stake = K1_280 /\ interval = 100) =>
              /\ NumSegs = 13
              /\ parse_result.segments[13] = <<K1_200, K1_280>>

\* the example of the specification has been computed
C3_Witness ==
    /\ ParseOk
    /\ start_stake = K0_000 /\ end_stake = K1_280 /\ interval = 100
    /\ NumSegs = 13

\* C4: for well-formed stakes the call fails with a range error, returning
\* no segments, exactly when end <= start or interval <= 0 or
\* interval > end - start, and succeeds otherwise.
C4_RangeErrorExactly ==
    (/\ ParseDone
     /\ IsCanonicalStake(Strip(start_stake))
     /\ IsCanonicalStake(Strip(end_stake))) =>
        LET bad == \/ EndOffset <= StartOffset
                   \/ interval <= 0
                   \/ interval > EndOffset - StartOffset
        IN  /\ bad => parse_result.status = "range_error" /\ NumSegs = 0
            /\ ~bad => parse_result.status = "ok" /\ NumSegs >= 1

\* an interval larger than a non-empty range has been rejected
C4_Witness ==
    /\ ParseDone
    /\ IsCanonicalStake(Strip(start_stake))
    /\ IsCanonicalStake(Strip(end_stake))
    /\ EndOffset > StartOffset
    /\ interval > EndOffset - StartOffset
    /\ parse_result.status = "range_error"

\* C5: a stake is accepted only when the whole token is K<km>+<metres>:
\* any other start or end token ends the call with a format error and no
\* segments.
C5_OnlyCanonicalAccepted ==
    (ParseDone /\ ~(/\ IsCanonicalStake(Strip(start_stake))
                    /\ IsCanonicalStake(Strip(end_stake)))) =>
        parse_result.status = "format_error" /\ NumSegs = 0

----------------------------------------------------------------------------
(* Hierarchy assembler: properties *)

InNetwork == pc \in {"level1", "level2", "level3", "row_end"}

RequestsOfLevel(l) == SelectSeq(requests, LAMBDA r : r.level = l)

\* the level-1 creation of the current row was requested and failed
Level1Failed == \E i \in 1..Len(requests) :
                    requests[i].level = 1 /\ ~requests[i].ok

\* the current row has its level-1 id, reused or created
Level1Resolved == pc \in {"level2", "level3", "row_end"} /\ ~Level1Failed

NetworkReturned == pc = "row_end"

\* positions in run_level1 of the successful creations for a road name
CreatedAt(road_name) ==
    { i \in 1..Len(run_level1) :
        run_level1[i].name = road_name /\ run_level1[i].ok }

\* C1: within one import run at most one level-1 node is created per road
\* name; after a successful creation no further level-1 request is sent for
\* that name, and every later row of that name gets the created id as its
\* level1_id and as parent of all its level-2 requests.
C1_OneLevel1PerName ==
    \A road_name \in RoadNames :
        /\ Cardinality(CreatedAt(road_name)) <= 1
        /\ \A i \in CreatedAt(road_name) :
              /\ \A j \in (i + 1)..Len(run_level1) :
                    run_level1[j].name # road_name
              /\ (Level1Resolved /\ processed_data.name = road_name) =>
                    /\ results.level1_id = run_level1[i].id
                    /\ \A k \in 1..Len(requests) :
                          requests[k].level = 2 =>
                             requests[k].parent = run_level1[i].id

\* a later row of an already created road has sent level-2 requests
\* without a level-1 request
C1_Witness ==
    /\ NetworkReturned
    /\ row_idx >= 1
    /\ CreatedAt(processed_data.name) # {}
    /\ RequestsOfLevel(1) = <<>>
    /\ RequestsOfLevel(2) # <<>>

FailedCount == Len(SelectSeq(requests, LAMBDA r : ~r.ok))

IdsOf(reqs) == [i \in 1..Len(reqs) |-> reqs[i].id]

BoundsOf(reqs) ==
    [i \in 1..Len(reqs) |-> <<reqs[i].segment_start, reqs[i].segment_end>>]

\* C6: with the level-1 id resolved, the level-2 requests are sent for the
\* station segments in index order, all of them by the time
\* create_road_network returns, whatever failed before; every failed
\* request has exactly one entry in errors, and level2_ids holds exactly
\* the ids of the successful level-2 requests.
C6_Level2ForEverySegment ==
    Level1Resolved =>
        LET level2 == RequestsOfLevel(2)
            segs   == processed_data.stake_segments
        IN  /\ Len(level2) <= Len(segs)
            /\ BoundsOf(level2) = SubSeq(segs, 1, Len(level2))
            /\ \A i \in 1..Len(level2) : level2[i].seg = i
            /\ NetworkReturned => Len(level2) = Len(segs)
            /\ Len(results.errors) = FailedCount
            /\ results.level2_ids =
                  IdsOf(SelectSeq(level2, LAMBDA r : r.ok))

\* the first segment's level-2 creation failed and the second segment's
\* level-2 request was sent all the same
C6_Witness ==
    /\ NetworkReturned
    /\ Level1Resolved
    /\ Len(RequestsOfLevel(2)) = 2
    /\ ~RequestsOfLevel(2)[1].ok
    /\ RequestsOfLevel(2)[2].ok
    /\ Len(results.level2_ids) = 1

\* C7: every level-3 request belongs to a segment whose level-2 creation
\* succeeded earlier in the row and has that creation's id as parent; a
\* segment whose level-2 creation failed gets no level-3 request.
C7_Level3UnderCreatedLevel2 ==
    \A i \in 1..Len(requests) :
        /\ requests[i].level = 3 =>
              \E j \in 1..(i - 1) :
                 /\ requests[j].level = 2
                 /\ requests[j].seg = requests[i].seg
                 /\ requests[j].ok
                 /\ requests[i].parent = requests[j].id
        /\ (requests[i].level = 2 /\ ~requests[i].ok) =>
              \A k \in 1..Len(requests) :
                 requests[k].level = 3 => requests[k].seg # requests[i].seg

\* the first segment's level-2 creation failed, the second's succeeded and
\* has a level-3 request
C7_Witness ==
    /\ \E i \in 1..Len(requests) :
          requests[i].level = 2 /\ requests[i].seg = 1 /\ ~requests[i].ok
    /\ \E i \in 1..Len(requests) :
          requests[i].level = 3 /\ requests[i].seg = 2

Level3Of(seg) == SelectSeq(requests, LAMBDA r : r.level = 3 /\ r.seg = seg)

\* C8: a failed level-1 creation ends create_road_network at once: the
\* level-1 request is the only request, level1_id is unset, level2_ids and
\* level3_ids are empty and errors has one entry.  Nothing else stops the
\* loops: when the call returns with the level-1 id resolved, every segment
\* has its level-2 request and every created level-2 node has a level-3
\* request for every direction.
C8_OnlyLevel1FailureAborts ==
    /\ Level1Failed =>
          /\ NetworkReturned
          /\ Len(requests) = 1
          /\ results.level1_id = NoneId
          /\ results.level2_ids = <<>>
          /\ results.level3_ids = <<>>
          /\ Len(results.errors) = 1
    /\ (NetworkReturned /\ ~Level1Failed) =>
          /\ Len(RequestsOfLevel(2)) = Len(processed_data.stake_segments)
          /\ \A i \in 1..Len(requests) :
                (requests[i].level = 2 /\ requests[i].ok) =>
                   Len(Level3Of(requests[i].seg)) =
                      Len(processed_data.drive_direction_values)

\* create_road_network has returned after a failed level-1 creation
C8_Witness ==
    /\ NetworkReturned
    /\ Level1Failed
    /\ Len(processed_data.stake_segments) = 2

\* the sub-labels of the current row's direction text, in the order written
SubLabels == parse_drive_direction(row.direction_text)

SlashCount ==
    Cardinality({ i \in 1..Len(row.direction_text) : row.direction_text[i] = "/" })

LabelsOf(reqs) == [i \in 1..Len(reqs) |-> reqs[i].label]

\* the labels of a sequence without the repetitions of earlier labels
RECURSIVE FirstOccurrences(_, _)
FirstOccurrences(labels, i) ==
    IF i > Len(labels) THEN <<>>
    ELSE (IF \E j \in 1..(i - 1) : labels[j] = labels[i]
          THEN <<>> ELSE <<labels[i]>>)
         \o FirstOccurrences(labels, i + 1)

\* C9 as stated: a direction text with k sub-labels gives every created
\* level-2 node exactly k level-3 requests, one per sub-label in the order
\* written.
C9_OnePerSubLabel ==
    (NetworkReturned /\ ~Level1Failed) =>
        \A i \in 1..Len(requests) :
            (requests[i].level = 2 /\ requests[i].ok) =>
                /\ Len(Level3Of(requests[i].seg)) = SlashCount + 1
                /\ LabelsOf(Level3Of(requests[i].seg)) = SubLabels

\* C9 amended: every created level-2 node gets exactly one level-3 request
\* per distinct sub-label of the direction text, in order of first
\* occurrence (a repeated sub-label counts once), and every successful one
\* adds its own id to level3_ids.
C9_OnePerDistinctSubLabel ==
    /\ (NetworkReturned /\ ~Level1Failed) =>
          \A i \in 1..Len(requests) :
              (requests[i].level = 2 /\ requests[i].ok) =>
                  LabelsOf(Level3Of(requests[i].seg)) =
                     FirstOccurrences(SubLabels, 1)
    /\ InNetwork =>
          results.level3_ids =
             IdsOf(SelectSeq(requests, LAMBDA r : r.level = 3 /\ r.ok))

\* "west / east": the created level-2 node of a segment has its two
\* level-3 nodes, west first
C9_Witness ==
    /\ NetworkReturned
    /\ SlashCount = 1
    /\ \E i \in 1..Len(requests) :
          /\ requests[i].level = 2 /\ requests[i].ok
          /\ LabelsOf(Level3Of(requests[i].seg)) = << <<"west">>, <<"east">> >>
          /\ \A k \in 1..2 : Level3Of(requests[i].seg)[k].ok

\* C10: the level-3 request of the first direction carries the segment's
\* bounds as (start, end), those of every later direction as (end, start).
C10_BoundsSwappedAfterFirst ==
    \A i \in 1..Len(requests) :
        requests[i].level = 3 =>
            LET segment == processed_data.stake_segments[requests[i].seg]
            IN  IF requests[i].dir = 1
                THEN /\ requests[i].segment_start = segment[1]
                     /\ requests[i].segment_end = segment[2]
                ELSE /\ requests[i].segment_start = segment[2]
                     /\ requests[i].segment_end = segment[1]

\* a third direction's level-3 request has been sent for K0+000-K0+100
C10_Witness ==
    \E i \in 1..Len(requests) :
        /\ requests[i].level = 3
        /\ requests[i].dir = 3
        /\ requests[i].segment_start = K0_100
        /\ requests[i].segment_end = K0_000

----------------------------------------------------------------------------
(* Level-3 geometry: properties *)

\* the side a label of the default table stands for
SideOf(label) ==
    IF label \in { <<"west">>, <<"north">>, <<"outer">>, <<"up">> }
    THEN "left" ELSE "right"

MappedLabels == { <<"east">>, <<"west">>, <<"south">>, <<"north">>,
                  <<"inner">>, <<"outer">>, <<"up">>, <<"down">> }

\* the number of track segments of a side of the current row
TrackLen(side) ==
    IF side = "left" THEN Len(processed_data.track_result.left_segments)
    ELSE Len(processed_data.track_result.right_segments)

\* the level-3 request of station segment r.seg has a geometry to look up
GeometryAvailable(r) ==
    r.label \in MappedLabels /\ r.seg <= TrackLen(SideOf(r.label))

\* C11: the geometry attached to the level-3 request of station segment i
\* (0-based) and direction d is the two-point line of the i-th track
\* segment of the side d resolves to, with that segment's length in
\* kilometres: never a segment of the other side or of another index; and
\* where that segment exists the geometry is attached.
C11_GeometryFromSideAndIndex ==
    \A k \in 1..Len(requests) :
        LET r == requests[k]
            i == r.seg - 1
        IN  r.level = 3 =>
              /\ GeometryAvailable(r) => r.geojson # <<>>
              /\ r.geojson # <<>> =>
                    /\ GeometryAvailable(r)
                    /\ Len(r.geojson) = 1
                    /\ r.geojson[1].type = "LineString"
                    /\ r.geojson[1].coordinates =
                          << <<SideOf(r.label), i>>, <<SideOf(r.label), i + 1>> >>
                    /\ r.geojson[1].length = <<100, 1000>>

\* the second station segment has got its west (left) and its east (right)
\* geometry
C11_Witness ==
    /\ \E k \in 1..Len(requests) :
          /\ requests[k].level = 3 /\ requests[k].seg = 2
          /\ requests[k].label = <<"west">>
          /\ requests[k].geojson # <<>>
    /\ \E k \in 1..Len(requests) :
          /\ requests[k].level = 3 /\ requests[k].seg = 2
          /\ requests[k].label = <<"east">>
          /\ requests[k].geojson # <<>>

\* the level-3 requests of the current row whose geometry lookup failed
LookupFailed == SelectSeq(requests, LAMBDA r : r.level = 3 /\ ~GeometryAvailable(r))

\* C12: a level-3 request whose geometry lookup fails (label not in the
\* table, or segment index beyond the side's segment list) is still sent,
\* without geometry; its id is appended to level3_ids when the creation
\* succeeds; the lookup failure is one printed warning and adds no entry to
\* errors, so every label of a created level-2 node still gets its request.
C12_LookupFailureIsWarningOnly ==
    /\ \A k \in 1..Len(LookupFailed) :
          /\ LookupFailed[k].geojson = <<>>
          /\ LookupFailed[k].ok =>
                \E j \in 1..Len(results.level3_ids) :
                    results.level3_ids[j] = LookupFailed[k].id
    /\ Len(warnings) = Len(LookupFailed)
    /\ Len(results.errors) = FailedCount
    /\ pc = "row_end" =>
          \A i \in 1..Len(requests) :
              (requests[i].level = 2 /\ requests[i].ok) =>
                  LabelsOf(Level3Of(requests[i].seg)) =
                      processed_data.drive_direction_values

\* the west node of the second station segment was created although the
\* left side has one track segment only
C12_Witness ==
    /\ pc = "row_end"
    /\ warnings = <<"index_out_of_range">>
    /\ results.errors = <<>>
    /\ \E k \in 1..Len(requests) :
          /\ requests[k].level = 3 /\ requests[k].seg = 2
          /\ requests[k].label = <<"west">>
          /\ requests[k].ok
          /\ requests[k].geojson = <<>>
          /\ \E j \in 1..Len(results.level3_ids) :
                results.level3_ids[j] = requests[k].id

\* C13: a label that is not in the label-to-side table resolves to no side:
\* the lookup fails with the unknown-direction error whatever the track and
\* the index are, and no segment of either side is attached by default.
C13_UnknownLabelHasNoSide ==
    /\ \A k \in 1..Len(requests) :
          LET r == requests[k]
          IN  (r.level = 3 /\ r.label \notin MappedLabels) =>
                /\ LookupTrackType(r.label) = ""
                /\ get_segment_coordinates(processed_data.track_result,
                                           r.label, r.seg - 1) =
                      [status |-> "unknown_direction", segment |-> <<>>]
                /\ r.geojson = <<>>
    /\ Len(SelectSeq(warnings, LAMBDA w : w = "unknown_direction")) =
          Len(SelectSeq(requests,
                        LAMBDA r : r.level = 3 /\ r.label \notin MappedLabels))

\* the request of the label "ring", which the dictionary knows and the
\* table does not, went out after the failed lookup
C13_Witness ==
    /\ "unknown_direction" \in { warnings[i] : i \in 1..Len(warnings) }
    /\ \E k \in 1..Len(requests) :
          /\ requests[k].level = 3
          /\ requests[k].label = <<"ring">>
          /\ requests[k].geojson = <<>>

----------------------------------------------------------------------------
(* Import runs: properties *)

\* C14: a run starts with an empty table: before its first row the table is
\* empty, every id in the table was recorded in the current run, and a
\* resolved level1_id is the id of a level-1 creation request of the
\* current run, also for a road an earlier run had created.
C14_TableClearedEachRun ==
    /\ (pc = "row" /\ row_idx = 0) => created_level1_roads = <<>>
    /\ \A name \in DOMAIN created_level1_roads :
          created_level1_roads[name][1] = runs
    /\ Level1Resolved =>
          /\ results.level1_id[1] = runs
          /\ \E i \in CreatedAt(processed_data.name) :
                run_level1[i].id = results.level1_id

\* the first row of the second run has sent and got its own level-1 node for
\* a road that was in the table of the first run
C14_Witness ==
    /\ runs = 2
    /\ pc = "level2"
    /\ row_idx = 0
    /\ processed_data.name \in cleared_names
    /\ Len(requests) = 1
    /\ requests[1].level = 1 /\ requests[1].ok
    /\ requests[1].name = processed_data.name
    /\ created_level1_roads[processed_data.name] = requests[1].id

\* a step of the row loop in which process_excel_row raised
RowRaised == pc = "row" /\ pc' = "row" /\ row_idx' # row_idx

\* C15: every row of a run is attempted: the rows counted as processed or
\* failed are the rows handled so far, all rows by the end of the run; a
\* row whose processing raises adds one to failed_rows and one message to
\* errors, sends no creation request, and the loop moves to the next row.
C15_RowFailureAbortsOnlyTheRow ==
    /\ [](/\ pc \in {"row", "level1", "level2", "level3", "row_end"} =>
               import_results.processed_rows + import_results.failed_rows = row_idx
          /\ (pc = "finished" /\ import_results # ValidationFailed) =>
               /\ row_idx = total_rows
               /\ import_results.processed_rows + import_results.failed_rows
                     = total_rows)
    /\ [][RowRaised =>
            /\ row_idx' = row_idx + 1
            /\ import_results'.failed_rows = import_results.failed_rows + 1
            /\ import_results'.processed_rows = import_results.processed_rows
            /\ import_results'.errors = Append(import_results.errors, "row_failed")
            /\ requests' = <<>>
            /\ run_level1' = run_level1
            /\ created_level1_roads' = created_level1_roads]_vars

\* the first row of the run raised and the second row has sent requests
C15_Witness ==
    /\ pc = "row_end"
    /\ row_idx = 1
    /\ import_results.failed_rows = 1
    /\ import_results.errors = <<"row_failed">>
    /\ Len(requests) >= 2
    /\ results.errors = <<>>

----------------------------------------------------------------------------
(* Import endpoint: properties *)

\* all messages of an upload: the validation messages if there are any,
\* else the messages of the rows in row order
UploadErrors(rows) ==
    IF \E i \in 1..Len(rows) : rows[i].missing
    THEN validate_required_fields(rows)
    ELSE process_country_road_import(rows).errors

\* C16: every request with a readable spreadsheet is answered by a batch
\* summary, not by an exception: total, processed and failed rows, and,
\* when validation or rows failed, the first 10 messages in order.
C16_AlwaysBatchSummary ==
    (endpoint_pc = "done" /\ file.filename_ok /\ file.readable) =>
        /\ response.kind = "json"
        /\ response.data.total_rows \in {0, Len(file.rows)}
        /\ response.data.processed_rows + response.data.failed_rows
              <= Len(file.rows)
        /\ UploadErrors(file.rows) # <<>> =>
              /\ response.status_code = 400
              /\ Len(response.data.errors) <= 10
              /\ response.data.errors =
                    SubSeq(UploadErrors(file.rows), 1,
                           Len(response.data.errors))
              /\ Len(response.data.errors) = 10
                    \/ response.data.errors = UploadErrors(file.rows)

----------------------------------------------------------------------------
(* Coordinate conversions: properties *)

\* the requests of the call, in the order they were sent
GwRequests == SelectSeq(gw_log, LAMBDA e : e.event = "request")

\* the results of the first k requests, one after the other
RECURSIVE ConcatResults(_)
ConcatResults(k) ==
    IF k = 0 THEN <<>>
    ELSE ConcatResults(k - 1) \o GwRequests[k].answer.result

\* the requests carry the consecutive batches of at most BatchSize points in
\* input order, ceil(n / BatchSize) of them when the call returns, and the
\* points collected are the results of the requests in request order
ChunksAndConcatenation ==
    /\ \A k \in 1..Len(GwRequests) :
          /\ GwRequests[k].start = (k - 1) * BatchSize
          /\ GwRequests[k].batch =
                SubSeq(coordinates, (k - 1) * BatchSize + 1,
                       Min(k * BatchSize, Len(coordinates)))
          /\ Len(GwRequests[k].batch) \in 1..BatchSize
    /\ result_coords =
          ConcatResults(IF gw_pc = "raised" /\ GwRequests # <<>>
                        THEN Len(GwRequests) - 1 ELSE Len(GwRequests))
    /\ gw_pc = "returned" =>
          Len(GwRequests) = CeilDiv(Len(coordinates), BatchSize)

\* C17: the points go to the upstream service as consecutive batches of at
\* most 100 points in input order, ceil(n/100) requests for n points; the
\* list returned is the concatenation of the results of the batches in
\* batch order, and its i-th point is the transform of the i-th input point.
C17_ChunkedOrderPreserving ==
    /\ ChunksAndConcatenation
    /\ gw_pc = "returned" =>
          \A i \in 1..Len(coordinates) :
              /\ i <= Len(result_coords)
              /\ result_coords[i] = UpstreamTransform(coordinates[i])

\* a request of the call that did not end with status 0
ChunkFailed == \E k \in 1..Len(GwRequests) : GwRequests[k].answer.status # "ok"

\* C18: a call that returns has one point per input point, and a call one of
\* whose batches met a timeout or a status other than success raises and
\* hands no point to its caller.
C18_AllOrNothing ==
    /\ gw_pc = "returned" => Len(result_coords) = Len(coordinates)
    /\ ChunkFailed => gw_pc = "raised"

\* C19: a batch is requested at most once, between two requests of one call
\* there is a pause, and the request that fails is the last one of the call.
C19_NoRetryPauseBetweenAbortOnFailure ==
    /\ \A a, b \in 1..Len(gw_log) :
          (a < b /\ gw_log[a].event = "request" /\ gw_log[b].event = "request") =>
              /\ gw_log[a].start # gw_log[b].start
              /\ \E c \in (a + 1)..(b - 1) : gw_log[c].event = "sleep"
    /\ \A a \in 1..Len(gw_log) :
          (gw_log[a].event = "request" /\ gw_log[a].answer.status # "ok") =>
              /\ a = Len(gw_log)
              /\ gw_pc = "raised"

\* the second batch of a call timed out after the first one was answered and
\* the pause was made
C19_Witness ==
    /\ gw_pc = "raised"
    /\ Len(gw_log) = 3
    /\ gw_log[1].event = "request" /\ gw_log[1].answer.status = "ok"
    /\ gw_log[2].event = "sleep"
    /\ gw_log[3].event = "request" /\ gw_log[3].answer.status = "timeout"
    /\ gw_log[3].start = BatchSize

----------------------------------------------------------------------------
(* Arc-length segmenter: properties *)

RECURSIVE SumLengths(_)
SumLengths(segs) ==
    IF segs = <<>> THEN 0 ELSE Head(segs).length + SumLengths(Tail(segs))

\* C20: for a positive interval the segments returned are contiguous and
\* complete: the first starts at distance 0, every segment ends where the
\* next one starts, the last ends at the total length of the line, the
\* length of a segment is its end distance minus its start distance, and
\* the lengths add up to the total length.
C20_SegmentsContiguousAndComplete ==
    segmenter_pc = "done" =>
        LET total == LineLength(mc_coordinates)
            n == Len(road_segments)
        IN  /\ total > 0 => n >= 1
            /\ n >= 1 =>
                  /\ road_segments[1].start_distance = 0
                  /\ road_segments[n].end_distance = total
            /\ \A i \in 1..(n - 1) :
                  road_segments[i].end_distance =
                     road_segments[i + 1].start_distance
            /\ \A i \in 1..n :
                  /\ road_segments[i].length =
                        road_segments[i].end_distance
                           - road_segments[i].start_distance
                  /\ road_segments[i].length > 0
            /\ SumLengths(road_segments) = total

\* a line around a corner cut at interval 3: the last segment is the short
\* rest
C20_Witness ==
    /\ segmenter_pc = "done"
    /\ interval_meters = 3
    /\ Len(mc_coordinates) = 3
    /\ LineLength(mc_coordinates) = 8
    /\ Len(road_segments) = 3
    /\ road_segments[3].length = 2

----------------------------------------------------------------------------
(* Arc-length segmenter, degenerate inputs: properties *)

DegenerateCall == interval_meters <= 0 \/ Len(mc_coordinates) < 2

\* C21: a call with interval <= 0 or with fewer than two points builds no
\* segment and does not return normally (it fails with a geometry error).
C21_DegenerateCallFails ==
    DegenerateCall => (road_segments = <<>> /\ segmenter_pc # "done")

\* C21, termination: a call with interval <= 0 or with fewer than two
\* points comes to an end.
C21_DegenerateCallTerminates ==
    DegenerateCall ~> (segmenter_pc \in {"done", "raised"})

----------------------------------------------------------------------------
(* Station segments and track segments of one row: properties *)

TracksGenerated == tracks_pc = "done"

\* C22: when the tracks of a row have been generated, the left side and the
\* right side each have as many track segments as parse_stake_range has
\* produced station segments for the row
C22_TrackCountEqualsStationCount ==
    TracksGenerated =>
        /\ Len(track_out.left_segments) = Len(parse_result.segments)
        /\ Len(track_out.right_segments) = Len(parse_result.segments)

----------------------------------------------------------------------------
(* Import runs, the level-2 payload: properties *)

\* C23: the length of every level-2 creation request is the length of the
\* station segment of that node, end offset minus start offset
C23_Level2LengthIsSegmentLength ==
    \A i \in 1..Len(requests) :
        requests[i].level = 2 =>
            requests[i].length =
                StakeOffset(requests[i].segment_end)
                    - StakeOffset(requests[i].segment_start)

----------------------------------------------------------------------------
(* Import runs, a failing track generation: properties *)

\* C24, as stated: a failure of the track generation costs the row only its
\* geometry, the row itself does not fail because of it
C24_TrackFailureKeepsRow == row_note # "track"

\* C24, amended: a failure of the track generation fails the row: no row is
\* assembled without its track result, and the row that raised for it has
\* sent no creation request and is counted in failed_rows
C24_TrackFailureFailsRow ==
    /\ pc \in {"level1", "level2", "level3", "row_end"} => row.track_ok
    /\ row_note = "track" =>
          /\ pc = "row"
          /\ requests = <<>>
          /\ import_results.failed_rows >= 1
          /\ import_results.errors # <<>>
          /\ import_results.errors[Len(import_results.errors)] = "row_failed"

\* a second row has raised in the track generation after a first row that
\* was processed
C24_Witness ==
    /\ row_note = "track"
    /\ row_idx = 2
    /\ import_results.processed_rows = 1
    /\ import_results.failed_rows = 1

----------------------------------------------------------------------------
(* Import runs, the order of the requests of one row: properties *)

\* no level-2 or level-3 request before the level-1 node of the row is
\* resolved: such a request is sent with level1_id set, and a level-1
\* request is the first request of the row
AfterLevel1Resolution ==
    \A i \in 1..Len(requests) :
        /\ requests[i].level \in {2, 3} => results.level1_id # NoneId
        /\ requests[i].level = 2 => requests[i].parent = results.level1_id
        /\ requests[i].level = 1 => i = 1

\* create_road_network ends without a level-1 id only when the level-1
\* creation has failed, and then that request is the only one of the row
FailedOnlyByLevel1 ==
    (pc = "row_end" /\ results.level1_id = NoneId) =>
        /\ Len(requests) = 1
        /\ requests[1].level = 1
        /\ ~requests[1].ok
        /\ results.errors = <<"level1_failed">>

\* C25, as stated: the requests of a row come in phases, level-1 resolution,
\* then all level-2 creations, then all level-3 creations
C25_Level2PhaseBeforeLevel3Phase ==
    /\ AfterLevel1Resolution
    /\ FailedOnlyByLevel1
    /\ \A i, j \in 1..Len(requests) :
          (requests[i].level = 3 /\ requests[j].level = 2) => j < i

\* C25, amended: after level-1 resolution the requests of a row go segment by
\* segment: the level-2 creation of a segment, then the level-3 creations of
\* that segment, one per direction in order, and only then the next segment
C25_SegmentBySegment ==
    /\ AfterLevel1Resolution
    /\ FailedOnlyByLevel1
    /\ \A i, j \in 1..Len(requests) :
          (i < j /\ requests[i].level \in {2, 3} /\ requests[j].level \in {2, 3}) =>
              /\ requests[i].seg <= requests[j].seg
              /\ requests[i].seg = requests[j].seg =>
                    /\ requests[j].level = 3
                    /\ requests[i].level = 3 => requests[i].dir < requests[j].dir
    /\ \A j \in 1..Len(requests) :
          requests[j].level = 3 =>
              \E i \in 1..(j - 1) :
                  /\ requests[i].level = 2
                  /\ requests[i].ok
                  /\ requests[i].seg = requests[j].seg
                  /\ requests[j].parent = requests[i].id

\* a row of two segments and two directions is done: the level-3 requests of
\* the first segment lie before the level-2 request of the second
C25_Witness ==
    /\ pc = "row_end"
    /\ Len(requests) = 7
    /\ [i \in 1..7 |-> requests[i].level] = <<1, 2, 3, 3, 2, 3, 3>>
    /\ [i \in 1..7 |-> requests[i].seg] = <<0, 1, 1, 1, 2, 2, 2>>

----------------------------------------------------------------------------
(* The router's parse_stake_range: properties *)

IsBareRange ==
    /\ \A i \in 1..Len(start_stake) : start_stake[i] # "K"
    /\ Len(SplitDash(start_stake, <<>>)) = 2

\* the start and the end the text names, in metres
TextStart ==
    IF IsBareRange
    THEN KmToMetresRounded(SplitDash(start_stake, <<>>)[1])
    ELSE RangeMatch(start_stake).start_total_m

TextEnd ==
    IF IsBareRange
    THEN KmToMetresRounded(SplitDash(start_stake, <<>>)[2])
    ELSE RangeMatch(start_stake).end_total_m

\* C26: a successful call of the router's parse_stake_range on a text whose
\* end lies after its start returns segments that tile [start, end] at the
\* step of 100 m: the first starts at start, the last ends at end, each end
\* stake is the next start stake, all but the last span 100 m and the last
\* spans more than 0 and at most 100 m
C26_LegacySegmentsTileRange ==
    (ParseOk /\ TextStart < TextEnd) =>
        /\ NumSegs >= 1
        /\ SegStart(1) = TextStart
        /\ SegEnd(NumSegs) = TextEnd
        /\ \A i \in 1..(NumSegs - 1) :
              /\ parse_result.segments[i][2] = parse_result.segments[i + 1][1]
              /\ SegEnd(i) - SegStart(i) = LegacyStep
        /\ SegEnd(NumSegs) - SegStart(NumSegs) > 0
        /\ SegEnd(NumSegs) - SegStart(NumSegs) <= LegacyStep

----------------------------------------------------------------------------
(* Several import requests: properties *)

\* the handlers that are inside process_country_road_import
InRun == { h \in Handlers :
             handler_pc[h] \in {"clear", "row", "create", "segments"} }

\* C27: the table operations and the creation requests of one import run do
\* not interleave with those of another: at most one handler is inside
\* process_country_road_import, no handler comes back to the table or the
\* remote service after another one has touched them, the table only holds
\* ids of the latest run, and a name a run has looked up and missed is
\* still missing when the run creates it
C27_RunsDoNotInterleave ==
    /\ Cardinality(InRun) <= 1
    /\ \A i, j \in 1..Len(run_order) : run_order[i] = run_order[j] => i = j
    /\ \A n \in DOMAIN CREATED_LEVEL1_ROADS :
          CREATED_LEVEL1_ROADS[n][1] = run_order[Len(run_order)]
    /\ \A h \in Handlers :
          handler_pc[h] = "create" =>
              handler_name[h] \notin DOMAIN CREATED_LEVEL1_ROADS

\* two requests are open at once: one handler is about to create a level-1
\* node while the other, accepted earlier, waits at its await
C27_Witness ==
    /\ handler_pc[2] = "create"
    /\ handler_pc[1] = "reading"
    /\ handler_rows[2] = 1
    /\ run_order = <<2>>

----------------------------------------------------------------------------
(* Import runs, the table after a failed level-1 creation: properties *)

\* the level-1 requests of the run that have failed for the name
FailedAt(road_name) ==
    { i \in 1..Len(run_level1) :
        run_level1[i].name = road_name /\ ~run_level1[i].ok }

\* C28: a failed level-1 creation records nothing: the table holds exactly
\* the names with a successful level-1 request in the run, each with the id
\* that request returned; a name whose creation has failed is looked up as
\* missing by the next row of that name, which sends a new level-1 request
\* (the failed requests of a name all come before its successful one), and
\* no row goes on to level 2 with a missing level-1 id
C28_FailedLevel1LeavesTable ==
    /\ DOMAIN created_level1_roads =
          { road_name \in RoadNames : CreatedAt(road_name) # {} }
    /\ \A road_name \in DOMAIN created_level1_roads :
          \A i \in CreatedAt(road_name) :
              /\ created_level1_roads[road_name] = run_level1[i].id
              /\ \A j \in FailedAt(road_name) : j < i
    /\ pc \in {"level2", "level3"} =>
          /\ results.level1_id # NoneId
          /\ results.level1_id = created_level1_roads[processed_data.name]

\* the level-1 creation of a road has failed on the first row and a second
\* row of the same name has created it with a new request
C28_Witness ==
    /\ Len(run_level1) = 2
    /\ run_level1[1].name = run_level1[2].name
    /\ ~run_level1[1].ok
    /\ run_level1[2].ok
    /\ row_idx = 1
    /\ created_level1_roads[run_level1[2].name] = run_level1[2].id

----------------------------------------------------------------------------
(* Import runs, the counters of the row loop: properties *)

InRowLoop == pc \in {"row", "level1", "level2", "level3", "row_end"}

RowLoopDone == pc = "finished" /\ import_results # ValidationFailed

RowHandled == row_idx' = row_idx + 1

\* C29: in the row loop processed_rows + failed_rows is the number of rows
\* handled so far and success is still True; every row handled adds one to
\* exactly one of the two counters; after the loop the sum is total_rows and
\* success is True exactly when failed_rows is 0
C29_CountersPartitionRows ==
    /\ [](/\ InRowLoop =>
               /\ import_results.processed_rows + import_results.failed_rows
                     = row_idx
               /\ row_idx <= total_rows
               /\ import_results.total_rows = total_rows
               /\ import_results.success
          /\ RowLoopDone =>
               /\ import_results.processed_rows + import_results.failed_rows
                     = import_results.total_rows
               /\ import_results.success <=> import_results.failed_rows = 0)
    /\ [][RowHandled =>
            \/ /\ import_results'.processed_rows = import_results.processed_rows + 1
               /\ import_results'.failed_rows = import_results.failed_rows
            \/ /\ import_results'.processed_rows = import_results.processed_rows
               /\ import_results'.failed_rows = import_results.failed_rows + 1]_vars

\* a run of two rows has ended with one row in each counter
C29_Witness ==
    /\ RowLoopDone
    /\ import_results.total_rows = 2
    /\ import_results.processed_rows = 1
    /\ import_results.failed_rows = 1
    /\ ~import_results.success

NetworkDone == pc = "row_end" /\ pc' = "row"

\* C30: when create_road_network has returned, the row is counted in
\* processed_rows exactly when the error list of the result is empty, and in
\* failed_rows otherwise; geometry lookups that failed at level-3 nodes put
\* nothing into the error list, which holds one entry per failed creation
\* request, so a row with such warnings only is counted as processed
C30_ProcessedIffNoErrors ==
    /\ [](pc = "row_end" =>
            /\ Len(results.errors) = FailedCount
            /\ (warnings # <<>> /\ FailedCount = 0) => results.errors = <<>>)
    /\ [][NetworkDone =>
            /\ (results.errors = <<>>) <=>
                  (import_results'.processed_rows = import_results.processed_rows + 1)
            /\ (results.errors # <<>>) <=>
                  (import_results'.failed_rows = import_results.failed_rows + 1)]_vars

\* a row whose level-3 nodes were created without geometry has been counted
\* as processed
C30_Witness ==
    /\ pc = "row"
    /\ row_idx = 1
    /\ row_note = "warned"
    /\ import_results.processed_rows = 1
    /\ import_results.failed_rows = 0

====
